---- MODULE Spec2Model ----
(***************************************************************************)
(* A model of libgraffiti's observable Document (document.rs) and of its   *)
(* stylesheet parser (css/parser.rs).                                      *)
(*                                                                         *)
(* Spec       the Document: an arena tree of element/text nodes whose      *)
(*            mutators notify one listener synchronously.                  *)
(* SpecSheet  sheet(): the token-level stylesheet parser, run on inputs    *)
(*            assembled from a library of blocks.                          *)
(***************************************************************************)
EXTENDS Integers, Sequences, FiniteSets, TLC

VARIABLES
    tree,       \* Document.tree : IdTree<NodeData>, a function slot -> node
    root,       \* Document.root : NodeId
    log,        \* what the listener has received: <<event, tree at delivery>>
    lastCall,   \* the last public call: its name, arguments and outcome
    ops,        \* number of mutating calls made so far
    segs,       \* the blocks the stylesheet source was assembled from
    tokens,     \* the input of sheet(): the token slice
    pos,        \* sheet(): position of the repeat loop in the token slice
    maybe_rules,\* sheet(): the items the repeat loop has collected so far
    styleSheet, \* sheet(): the StyleSheet returned, None while there is none
    sheetPc,    \* sheet(): "idle", "parsing" or "done"
    props,      \* Style.props of the Style that declarations are applied to
    applied,    \* the declarations applied to that Style so far, in order
    cssCall,    \* the last call of a value or property parser and its outcome
    tkSrc,      \* the pieces the input of tokenize() was assembled from
    input,      \* tokenize(): the input bytes
    tkPc,       \* tokenize(): "idle", "tokens" (first pass), "strip" or "done"
    tkPos,      \* tokenize(): position of the first pass in the input
    rawTokens,  \* tokenize(): tokens, the result of the first pass
    stripIdx,   \* tokenize(): index i of the whitespace-stripping loop
    res,        \* tokenize(): res, the tokens returned
    keep_space, \* tokenize(): keep_space of the whitespace-stripping loop
    selSrc,     \* the selector text given to Selector::from, as its tokens
    selCall     \* the last call of Selector::from and its outcome

docVars   == <<tree, root, log, lastCall, ops>>
sheetVars == <<segs, tokens, pos, maybe_rules, styleSheet, sheetPc>>
cssVars   == <<props, applied, cssCall>>
tokVars   == <<tkSrc, input, tkPc, tkPos, rawTokens, stripIdx, res, keep_space>>
selVars   == <<selSrc, selCall>>
restVars  == <<cssVars, tokVars, selVars>>
vars      == <<tree, root, log, lastCall, ops, segs, tokens, pos, maybe_rules,
               styleSheet, sheetPc, props, applied, cssCall, tkSrc, input, tkPc, tkPos,
               rawTokens, stripIdx, res, keep_space, selSrc, selCall>>

----------------------------------------------------------------------------
(* Bounds of the model *)

\* number of arena slots (NodeId values) the model uses
MaxNodes == 3
\* number of mutating Document calls in one run
MaxOps == 3

NodeIds    == 0 .. (MaxNodes - 1)
LocalNames == {"div"}
Texts      == {"hello", "bye"}
AttNames   == {"id"}
AttValues  == {"a", "b"}

----------------------------------------------------------------------------
(* Rust values *)

\* Option<T>
None    == <<>>
Some(x) == <<x>>

\* the outcome of a call: it returns a value, or it panics
Ok(v)      == <<"ok", v>>
Panic(msg) == <<"panic", msg>>
IsPanic(r) == r[1] = "panic"
Unit       == "()"

\* Vec::insert(index, x), index counted from 0
InsertAt(s, i, x) == SubSeq(s, 1, i) \o <<x>> \o SubSeq(s, i + 1, Len(s))

Range(s) == {s[i] : i \in 1 .. Len(s)}

\* HashMap::insert / HashMap::remove / HashMap::get
MapInsert(m, k, v) == [x \in DOMAIN m \cup {k} |-> IF x = k THEN v ELSE m[x]]
MapRemove(m, k)    == [x \in DOMAIN m \ {k} |-> m[x]]
MapGet(m, k)       == IF k \in DOMAIN m THEN Some(m[k]) ELSE None
EmptyMap           == [x \in {} |-> "a"]

----------------------------------------------------------------------------
(* NodeData, document.rs:155-190 *)

Element(local_name, attributes) ==
    [kind |-> "Element", local_name |-> local_name, attributes |-> attributes]

Text(text) == [kind |-> "Text", text |-> text]

NodeData_el(d) ==
    IF d.kind = "Element" THEN Ok(d) ELSE Panic("not an element")

NodeData_el_mut(d) ==
    IF d.kind = "Element" THEN Ok(d) ELSE Panic("not an element")

\* NodeData::text that hands out data for the wrong variant instead of panicking
NodeData_text_lenient(d) ==
    IF d.kind = "Text" THEN Ok(d.text) ELSE Ok("")

NodeData_text(d) ==
    IF d.kind = "Text" THEN Ok(d.text) ELSE Panic("not a text node")

----------------------------------------------------------------------------
(* IdTree<T>, crate::util: the arena. Its source is not part of the        *)
(* excerpt; it is modelled from the specification's description of the     *)
(* tree (sections 3 and 4.6): slots hold a parent, an ordered list of      *)
(* children and the payload; free reclaims one slot and nothing else.      *)

IdTree_new == [n \in {} |-> 0]

\* the id create_node returns: a slot that is not occupied; a freed slot is
\* reusable, and the arena hands out its first vacant slot
IdTree_vacant(t) ==
    LET v == NodeIds \ DOMAIN t IN {n \in v : \A m \in v : n <= m}

IdTree_create_node(t, id, d) ==
    [n \in DOMAIN t \cup {id} |->
        IF n = id THEN [parent |-> None, children |-> <<>>, data |-> d] ELSE t[n]]

IdTree_data(t, n)     == t[n].data
IdTree_parent(t, n)   == t[n].parent
IdTree_children(t, n) == t[n].children

IdTree_data_mut(t, n, d) == [t EXCEPT ![n].data = d]

IdTree_insert_child(t, parent, child, index) ==
    LET t1 == [t EXCEPT ![parent].children = InsertAt(@, index, child)]
    IN  [t1 EXCEPT ![child].parent = Some(parent)]

IdTree_remove_child(t, parent, child) ==
    LET t1 == [t EXCEPT ![parent].children = SelectSeq(@, LAMBDA c : c # child)]
    IN  [t1 EXCEPT ![child].parent = None]

IdTree_free_node(t, n) == [m \in DOMAIN t \ {n} |-> t[m]]

----------------------------------------------------------------------------
(* DocumentEvent, document.rs:12-23 *)

ParentChanged(n)        == <<"ParentChanged", n>>
NodeDestroyed(n)        == <<"NodeDestroyed", n>>
TextNodeCreated(n)      == <<"TextNodeCreated", n>>
TextChanged(n)          == <<"TextChanged", n>>
ElementCreated(n)       == <<"ElementCreated", n>>
AttributesChanged(n)    == <<"AttributesChanged", n>>
NodeInserted(p, c, i)   == <<"NodeInserted", p, c, i>>
NodeRemoved(p, c)       == <<"NodeRemoved", p, c>>

\* Document::emit: the listener runs inline; it is handed the event while
\* the tree is in state t
emit(l, event, t) == Append(l, [event |-> event, tree |-> t])

\* the events of a log, without the snapshots
Events(l) == [i \in 1 .. Len(l) |-> l[i].event]

Call(c, r) == [call |-> c, ret |-> r]

Running == ~IsPanic(lastCall.ret)
Live    == DOMAIN tree

\* a call that panics: nothing is written, nothing is emitted
Abort(c, r) ==
    /\ lastCall' = Call(c, r)
    /\ UNCHANGED <<tree, root, log, ops, sheetVars, restVars>>

\* a read accessor (&self): it returns r
Read(c, r) ==
    /\ lastCall' = Call(c, r)
    /\ UNCHANGED <<tree, root, log, ops, sheetVars, restVars>>

----------------------------------------------------------------------------
(* Document, document.rs:35-150 *)

\* Document::new
Document_new ==
    \E id \in IdTree_vacant(IdTree_new) :
        LET t == IdTree_create_node(IdTree_new, id, Element(":root", EmptyMap))
        IN  /\ tree = t
            /\ root = id
            /\ log = emit(<<>>, ElementCreated(id), t)
            /\ lastCall = Call(<<"new">>, Ok(Unit))
            /\ ops = 0

Document_root ==
    /\ Running
    /\ Read(<<"root">>, Ok(root))

Document_is_element(node) ==
    /\ Running
    /\ Read(<<"is_element", node>>, Ok(IdTree_data(tree, node).kind = "Element"))

Document_is_text(node) ==
    /\ Running
    /\ Read(<<"is_text", node>>, Ok(IdTree_data(tree, node).kind = "Text"))

Document_parent(node) ==
    /\ Running
    /\ Read(<<"parent", node>>, Ok(IdTree_parent(tree, node)))

Document_children(node) ==
    /\ Running
    /\ Read(<<"children", node>>, Ok(IdTree_children(tree, node)))

\* insert_child with its two emit calls in the other order
Document_insert_child_swapped(parent, child, index) ==
    /\ Running /\ ops < MaxOps
    /\ LET t == IdTree_insert_child(tree, parent, child, index)
       IN  /\ tree' = t
           /\ log' = emit(emit(log, ParentChanged(child), t),
                          NodeInserted(parent, child, index), t)
    /\ lastCall' = Call(<<"insert_child", parent, child, index>>, Ok(Unit))
    /\ ops' = ops + 1
    /\ UNCHANGED <<root, sheetVars, restVars>>

\* insert_child that notifies the listener before it changes the tree
Document_insert_child_early(parent, child, index) ==
    /\ Running /\ ops < MaxOps
    /\ tree' = IdTree_insert_child(tree, parent, child, index)
    /\ log' = emit(emit(log, NodeInserted(parent, child, index), tree),
                   ParentChanged(child), tree)
    /\ lastCall' = Call(<<"insert_child", parent, child, index>>, Ok(Unit))
    /\ ops' = ops + 1
    /\ UNCHANGED <<root, sheetVars, restVars>>

Document_insert_child(parent, child, index) ==
    /\ Running /\ ops < MaxOps
    /\ LET t == IdTree_insert_child(tree, parent, child, index)
       IN  /\ tree' = t
           /\ log' = emit(emit(log, NodeInserted(parent, child, index), t),
                          ParentChanged(child), t)
    /\ lastCall' = Call(<<"insert_child", parent, child, index>>, Ok(Unit))
    /\ ops' = ops + 1
    /\ UNCHANGED <<root, sheetVars, restVars>>

Document_remove_child(parent, child) ==
    /\ Running /\ ops < MaxOps
    /\ LET t == IdTree_remove_child(tree, parent, child)
       IN  /\ tree' = t
           /\ log' = emit(emit(log, NodeRemoved(parent, child), t),
                          ParentChanged(child), t)
    /\ lastCall' = Call(<<"remove_child", parent, child>>, Ok(Unit))
    /\ ops' = ops + 1
    /\ UNCHANGED <<root, sheetVars, restVars>>

\* free_node that also frees the children of node
Document_free_node_recursive(node) ==
    /\ Running /\ ops < MaxOps
    /\ LET kids == Range(IdTree_children(tree, node)) \cap DOMAIN tree
           t    == [m \in DOMAIN tree \ ({node} \cup kids) |-> tree[m]]
       IN  /\ tree' = t
           /\ log' = emit(log, NodeDestroyed(node), t)
    /\ lastCall' = Call(<<"free_node", node>>, Ok(Unit))
    /\ ops' = ops + 1
    /\ UNCHANGED <<root, sheetVars, restVars>>

\* free_node that notifies the listener and leaves the slot allocated
Document_free_node_keeps_slot(node) ==
    /\ Running /\ ops < MaxOps
    /\ log' = emit(log, NodeDestroyed(node), tree)
    /\ lastCall' = Call(<<"free_node", node>>, Ok(Unit))
    /\ ops' = ops + 1
    /\ UNCHANGED <<tree, root, sheetVars, restVars>>

Document_free_node(node) ==
    /\ Running /\ ops < MaxOps
    /\ LET t == IdTree_free_node(tree, node)
       IN  /\ tree' = t
           /\ log' = emit(log, NodeDestroyed(node), t)
    /\ lastCall' = Call(<<"free_node", node>>, Ok(Unit))
    /\ ops' = ops + 1
    /\ UNCHANGED <<root, sheetVars, restVars>>

Document_create_text_node(text) ==
    /\ Running /\ ops < MaxOps
    /\ \E id \in IdTree_vacant(tree) :
        LET t == IdTree_create_node(tree, id, Text(text))
        IN  /\ tree' = t
            /\ log' = emit(log, TextNodeCreated(id), t)
            /\ lastCall' = Call(<<"create_text_node", text>>, Ok(id))
    /\ ops' = ops + 1
    /\ UNCHANGED <<root, sheetVars, restVars>>

\* text() that notifies the listener
Document_text_notifies(text_node) ==
    /\ Running
    /\ lastCall' = Call(<<"text", text_node>>, NodeData_text(IdTree_data(tree, text_node)))
    /\ log' = emit(log, TextChanged(text_node), tree)
    /\ UNCHANGED <<tree, root, ops, sheetVars, restVars>>

Document_text(text_node) ==
    /\ Running
    /\ Read(<<"text", text_node>>, NodeData_text(IdTree_data(tree, text_node)))

Document_set_text(text_node, text) ==
    /\ Running /\ ops < MaxOps
    /\ LET t == IdTree_data_mut(tree, text_node, Text(text))
       IN  /\ tree' = t
           /\ log' = emit(log, TextChanged(text_node), t)
    /\ lastCall' = Call(<<"set_text", text_node, text>>, Ok(Unit))
    /\ ops' = ops + 1
    /\ UNCHANGED <<root, sheetVars, restVars>>

\* create_element that announces the node as a text node
Document_create_element_as_text(local_name) ==
    /\ Running /\ ops < MaxOps
    /\ \E id \in IdTree_vacant(tree) :
        LET t == IdTree_create_node(tree, id, Element(local_name, EmptyMap))
        IN  /\ tree' = t
            /\ log' = emit(log, TextNodeCreated(id), t)
            /\ lastCall' = Call(<<"create_element", local_name>>, Ok(id))
    /\ ops' = ops + 1
    /\ UNCHANGED <<root, sheetVars, restVars>>

Document_create_element(local_name) ==
    /\ Running /\ ops < MaxOps
    /\ \E id \in IdTree_vacant(tree) :
        LET t == IdTree_create_node(tree, id, Element(local_name, EmptyMap))
        IN  /\ tree' = t
            /\ log' = emit(log, ElementCreated(id), t)
            /\ lastCall' = Call(<<"create_element", local_name>>, Ok(id))
    /\ ops' = ops + 1
    /\ UNCHANGED <<root, sheetVars, restVars>>

Document_local_name(element) ==
    /\ Running
    /\ LET el == NodeData_el(IdTree_data(tree, element))
       IN  Read(<<"local_name", element>>,
                IF IsPanic(el) THEN el ELSE Ok(el[2].local_name))

Document_attribute(element, att_name) ==
    /\ Running
    /\ LET el == NodeData_el(IdTree_data(tree, element))
       IN  Read(<<"attribute", element, att_name>>,
                IF IsPanic(el) THEN el ELSE Ok(MapGet(el[2].attributes, att_name)))

Document_set_attribute(element, att_name, value) ==
    /\ Running /\ ops < MaxOps
    /\ LET el == NodeData_el_mut(IdTree_data(tree, element))
           c  == <<"set_attribute", element, att_name, value>>
       IN  IF IsPanic(el)
           THEN Abort(c, el)
           ELSE LET d == [el[2] EXCEPT !.attributes = MapInsert(@, att_name, value)]
                    t == IdTree_data_mut(tree, element, d)
                IN  /\ tree' = t
                    /\ log' = emit(log, AttributesChanged(element), t)
                    /\ lastCall' = Call(c, Ok(Unit))
                    /\ ops' = ops + 1
                    /\ UNCHANGED <<root, sheetVars, restVars>>

\* remove_attribute without its emit call
Document_remove_attribute_silent(element, att_name) ==
    /\ Running /\ ops < MaxOps
    /\ LET el == NodeData_el_mut(IdTree_data(tree, element))
           c  == <<"remove_attribute", element, att_name>>
       IN  IF IsPanic(el)
           THEN Abort(c, el)
           ELSE LET d == [el[2] EXCEPT !.attributes = MapRemove(@, att_name)]
                    t == IdTree_data_mut(tree, element, d)
                IN  /\ tree' = t
                    /\ lastCall' = Call(c, Ok(Unit))
                    /\ ops' = ops + 1
                    /\ UNCHANGED <<root, log, sheetVars, restVars>>

Document_remove_attribute(element, att_name) ==
    /\ Running /\ ops < MaxOps
    /\ LET el == NodeData_el_mut(IdTree_data(tree, element))
           c  == <<"remove_attribute", element, att_name>>
       IN  IF IsPanic(el)
           THEN Abort(c, el)
           ELSE LET d == [el[2] EXCEPT !.attributes = MapRemove(@, att_name)]
                    t == IdTree_data_mut(tree, element, d)
                IN  /\ tree' = t
                    /\ log' = emit(log, AttributesChanged(element), t)
                    /\ lastCall' = Call(c, Ok(Unit))
                    /\ ops' = ops + 1
                    /\ UNCHANGED <<root, sheetVars, restVars>>

----------------------------------------------------------------------------
(* The Document under every caller: each step is one public call on live   *)
(* handles (a stale NodeId is unchecked arena indexing and is not called). *)

\* the parts of the library that a run does not call
CssIdle ==
    /\ props = <<>>
    /\ applied = <<>>
    /\ cssCall = [call |-> <<"idle">>, ret |-> <<"ok", "()">>]

TokIdle ==
    /\ tkSrc = <<>>
    /\ input = <<>>
    /\ tkPc = "idle"
    /\ tkPos = 0
    /\ rawTokens = <<>>
    /\ stripIdx = 0
    /\ res = <<>>
    /\ keep_space = FALSE

SelIdle ==
    /\ selSrc = <<>>
    /\ selCall = [call |-> <<"idle">>, ret |-> <<"ok", "()">>]

SheetIdle ==
    /\ segs = <<>>
    /\ tokens = <<>>
    /\ pos = 0
    /\ maybe_rules = <<>>
    /\ styleSheet = None
    /\ sheetPc = "idle"

Init ==
    /\ Document_new
    /\ SheetIdle
    /\ CssIdle /\ TokIdle /\ SelIdle

Next ==
    \/ Document_root
    \/ \E n \in Live : Document_is_element(n)
    \/ \E n \in Live : Document_is_text(n)
    \/ \E n \in Live : Document_parent(n)
    \/ \E n \in Live : Document_children(n)
    \/ \E p \in Live, c \in Live :
          \E i \in 0 .. Len(IdTree_children(tree, p)) :
              Document_insert_child(p, c, i)
    \/ \E p \in Live, c \in Live :
          /\ c \in Range(IdTree_children(tree, p))
          /\ Document_remove_child(p, c)
    \/ \E n \in Live : Document_free_node(n)
    \/ \E s \in Texts : Document_create_text_node(s)
    \/ \E n \in Live : Document_text(n)
    \/ \E n \in Live, s \in Texts : Document_set_text(n, s)
    \/ \E s \in LocalNames : Document_create_element(s)
    \/ \E n \in Live : Document_local_name(n)
    \/ \E n \in Live, a \in AttNames : Document_attribute(n, a)
    \/ \E n \in Live, a \in AttNames, v \in AttValues :
          Document_set_attribute(n, a, v)
    \/ \E n \in Live, a \in AttNames : Document_remove_attribute(n, a)

Spec == Init /\ [][Next]_vars

----------------------------------------------------------------------------
(* css/parser.rs: parser combinators over tokens.                          *)
(* A Token is a &str: here the sequence of its bytes, each a one-character *)
(* string. A parser is run on a token slice at a position counted from 0   *)
(* and either fails or succeeds with a new position and a value.           *)

Fail       == [ok |-> FALSE]
Succ(p, v) == [ok |-> TRUE, pos |-> p, val |-> v]

Lower == {"a", "b", "c", "d", "e", "f", "g", "h", "i", "j", "k", "l", "m",
          "n", "o", "p", "q", "r", "s", "t", "u", "v", "w", "x", "y", "z"}
Upper == {"A", "B", "C", "D", "E", "F", "G", "H", "I", "J", "K", "L", "M",
          "N", "O", "P", "Q", "R", "S", "T", "U", "V", "W", "X", "Y", "Z"}
Digit == {"0", "1", "2", "3", "4", "5", "6", "7", "8", "9"}

\* pom::char_class::alphanum
alphanum(b) == b \in Lower \cup Upper \cup Digit

alphanum_dash(b) == alphanum(b) \/ b = "-"

\* pom: sym(t), any(), skip(1) and seq(&[t1, t2])
sym(toks, p, t) ==
    IF p < Len(toks) /\ toks[p + 1] = t THEN Succ(p + 1, t) ELSE Fail

any(toks, p) ==
    IF p < Len(toks) THEN Succ(p + 1, toks[p + 1]) ELSE Fail

skip1(toks, p) ==
    IF p + 1 <= Len(toks) THEN Succ(p + 1, Unit) ELSE Fail

seq2(toks, p, t1, t2) ==
    IF p + 1 < Len(toks) /\ toks[p + 1] = t1 /\ toks[p + 2] = t2
    THEN Succ(p + 2, <<t1, t2>>)
    ELSE Fail

\* ident(): is_a(|t| alphanum_dash(t.as_bytes()[0]))
ident(toks, p) ==
    IF p < Len(toks) /\ alphanum_dash(toks[p + 1][1])
    THEN Succ(p + 1, toks[p + 1])
    ELSE Fail

\* the lookahead !stop of the four skipping loops of the parser
Stops(toks, p, loop) ==
    CASE loop = "media"      -> seq2(toks, p, <<"}">>, <<"}">>).ok
      [] loop = "unknown"    -> sym(toks, p, <<"}">>).ok
      [] loop = "attr"       -> sym(toks, p, <<"]">>).ok
      [] loop = "prop_value" -> sym(toks, p, <<";">>).ok \/ sym(toks, p, <<"}">>).ok

\* (!stop * skip(1)).repeat(1..): the position after the last repetition;
\* the loop ends where the lookahead or skip(1) fails, and it fails itself
\* when it did not run once
RECURSIVE skip_until(_, _, _)
skip_until(toks, p, loop) ==
    IF ~Stops(toks, p, loop) /\ skip1(toks, p).ok
    THEN skip_until(toks, p + 1, loop)
    ELSE p

skip_repeat1(toks, p, loop) ==
    LET q == skip_until(toks, p, loop)
    IN  IF q > p THEN Succ(q, SubSeq(toks, p + 1, q)) ELSE Fail

\* sym(t).discard().repeat(0..)
RECURSIVE sym_repeat0(_, _, _)
sym_repeat0(toks, p, t) ==
    IF sym(toks, p, t).ok THEN sym_repeat0(toks, p + 1, t) ELSE p

----------------------------------------------------------------------------
(* selector(), css/parser.rs:45-83 *)

Component(c)  == <<"Component", c>>
Combinator(c) == <<"Combinator", c>>
LocalName(a)  == <<"LocalName", a>>
Identifier(a) == <<"Identifier", a>>
ClassName(a)  == <<"ClassName", a>>
Unsupported   == <<"Unsupported">>

\* tag(): universal | (id | class_name | local_name | attr | pseudo)
tag(toks, p) ==
    LET universal  == sym(toks, p, <<"*">>)
        hash       == sym(toks, p, <<"#">>)
        id         == IF hash.ok THEN ident(toks, hash.pos) ELSE Fail
        dot        == sym(toks, p, <<".">>)
        class_name == IF dot.ok THEN ident(toks, dot.pos) ELSE Fail
        local_name == ident(toks, p)
        open       == sym(toks, p, <<"[">>)
        inside     == IF open.ok THEN skip_repeat1(toks, open.pos, "attr") ELSE Fail
        attr       == IF inside.ok THEN sym(toks, inside.pos, <<"]">>) ELSE Fail
        \* sym(":").discard().repeat(1..3): one colon, or two
        colon1     == sym(toks, p, <<":">>)
        colon2     == IF colon1.ok THEN sym(toks, colon1.pos, <<":">>) ELSE Fail
        pseudo     == IF colon2.ok THEN ident(toks, colon2.pos)
                      ELSE IF colon1.ok THEN ident(toks, colon1.pos)
                      ELSE Fail
    IN  IF universal.ok THEN Succ(universal.pos, Combinator("Universal"))
        ELSE IF id.ok THEN Succ(id.pos, Component(Identifier(id.val)))
        ELSE IF class_name.ok THEN Succ(class_name.pos, Component(ClassName(class_name.val)))
        ELSE IF local_name.ok THEN Succ(local_name.pos, Component(LocalName(local_name.val)))
        ELSE IF attr.ok THEN Succ(attr.pos, Component(Unsupported))
        ELSE IF pseudo.ok THEN Succ(pseudo.pos, Component(Unsupported))
        ELSE Fail

\* comb without its last alternative: '+' and '~' are not combinators
comb_no_sibling(toks, p) ==
    IF sym(toks, p, <<">">>).ok THEN Succ(p + 1, Combinator("Parent"))
    ELSE IF sym(toks, p, <<" ">>).ok THEN Succ(p + 1, Combinator("Ancestor"))
    ELSE IF sym(toks, p, <<",">>).ok THEN Succ(p + 1, Combinator("Or"))
    ELSE Fail

\* comb: (child | descendant | or).map(Combinator) | unsupported
comb(toks, p) ==
    IF sym(toks, p, <<">">>).ok THEN Succ(p + 1, Combinator("Parent"))
    ELSE IF sym(toks, p, <<" ">>).ok THEN Succ(p + 1, Combinator("Ancestor"))
    ELSE IF sym(toks, p, <<",">>).ok THEN Succ(p + 1, Combinator("Or"))
    ELSE IF sym(toks, p, <<"+">>).ok \/ sym(toks, p, <<"~">>).ok
         THEN Succ(p + 1, Component(Unsupported))
    ELSE Fail

\* (comb.opt() + tag()).repeat(0..): the pairs parsed, in source order
RECURSIVE selector_tail(_, _, _)
selector_tail(toks, p, acc) ==
    LET c == comb(toks, p)
        t == tag(toks, IF c.ok THEN c.pos ELSE p)
    IN  IF t.ok
        THEN selector_tail(toks, t.pos, Append(acc, <<IF c.ok THEN Some(c.val) ELSE None, t.val>>))
        ELSE Succ(p, acc)

\* the parts in the order they were parsed: the head, then each combinator
\* before its tag
RECURSIVE selector_parts_in_order(_, _)
selector_parts_in_order(head, tail) ==
    IF tail = <<>>
    THEN <<head>>
    ELSE selector_parts_in_order(head, SubSeq(tail, 1, Len(tail) - 1))
         \o tail[Len(tail)][1] \o <<tail[Len(tail)][2]>>

\* the closure of selector.map: the tail reversed, each tag before its
\* combinator, the head last
RECURSIVE selector_parts(_, _)
selector_parts(head, tail) ==
    IF tail = <<>>
    THEN <<head>>
    ELSE LET pair == tail[Len(tail)]
         IN  <<pair[2]>> \o pair[1] \o selector_parts(head, SubSeq(tail, 1, Len(tail) - 1))

selector(toks, p) ==
    LET head == tag(toks, p)
    IN  IF ~head.ok THEN Fail
        ELSE LET tail == selector_tail(toks, head.pos, <<>>)
             IN  Succ(tail.pos, [parts |-> selector_parts(head.val, tail.val)])

----------------------------------------------------------------------------
(* style(), rule() and sheet(), css/parser.rs:26-43 and 85-100 *)

\* prop: any() - sym(":") + prop_value - sym(";").discard().repeat(0..)
prop(toks, p) ==
    LET name  == any(toks, p)
        colon == IF name.ok THEN sym(toks, name.pos, <<":">>) ELSE Fail
        value == IF colon.ok THEN skip_repeat1(toks, colon.pos, "prop_value") ELSE Fail
    IN  IF value.ok
        THEN Succ(sym_repeat0(toks, value.pos, <<";">>), <<name.val, value.val>>)
        ELSE Fail

\* prop.repeat(0..): the (property, value) pairs handed to parse_prop_into,
\* in source order
RECURSIVE style(_, _, _)
style(toks, p, acc) ==
    LET d == prop(toks, p)
    IN  IF d.ok THEN style(toks, d.pos, Append(acc, d.val)) ELSE Succ(p, acc)

\* rule: selector() - sym("{") + style() - sym("}"), mapped to Rule::new; in
\* three parts, each run on the result of the part before it
rule_close(toks, sel, decls) ==
    IF sym(toks, decls.pos, <<"}">>).ok
    THEN Succ(decls.pos + 1, [selector |-> sel.val, style |-> decls.val])
    ELSE Fail

rule_style(toks, sel) ==
    IF sel.ok /\ sym(toks, sel.pos, <<"{">>).ok
    THEN rule_close(toks, sel, style(toks, sel.pos + 1, <<>>))
    ELSE Fail

rule(toks, p) == rule_style(toks, selector(toks, p))

\* media: sym("@") * sym("media") * (!seq(&["}", "}"]) * skip(1)).repeat(1..)
\*        - sym("}") - sym("}")
media(toks, p) ==
    LET at     == sym(toks, p, <<"@">>)
        name   == IF at.ok THEN sym(toks, at.pos, <<"m", "e", "d", "i", "a">>) ELSE Fail
        body   == IF name.ok THEN skip_repeat1(toks, name.pos, "media") ELSE Fail
        close1 == IF body.ok THEN sym(toks, body.pos, <<"}">>) ELSE Fail
        close2 == IF close1.ok THEN sym(toks, close1.pos, <<"}">>) ELSE Fail
    IN  IF close2.ok THEN Succ(close2.pos, None) ELSE Fail

\* unknown with repeat(0..) in place of repeat(1..): it matches the empty input
unknown_repeat0(toks, p) ==
    LET q == skip_until(toks, p, "unknown")
    IN  Succ(IF sym(toks, q, <<"}">>).ok THEN q + 1 ELSE q, None)

\* unknown without - sym("}").opt(): the closing brace is left unread
unknown_no_close(toks, p) ==
    IF skip_repeat1(toks, p, "unknown").ok
    THEN Succ(skip_repeat1(toks, p, "unknown").pos, None)
    ELSE Fail

\* unknown: (!sym("}") * skip(1)).repeat(1..) - sym("}").opt()
unknown(toks, p) ==
    LET body  == skip_repeat1(toks, p, "unknown")
        close == IF body.ok THEN sym(toks, body.pos, <<"}">>) ELSE Fail
    IN  IF ~body.ok THEN Fail
        ELSE Succ(IF close.ok THEN close.pos ELSE body.pos, None)

----------------------------------------------------------------------------
(* The stylesheet sources: up to MaxBlocks blocks in a row, each taken     *)
(* from a small library of token sequences (what tokenize returns for the  *)
(* text in the comment).                                                   *)

\* number of blocks in one stylesheet source
MaxBlocks == 3

Blocks ==
    <<  \* a {}
        [kind |-> "rule",
         toks |-> << <<"a">>, <<"{">>, <<"}">> >>],
        \* b { v: 0 }
        [kind |-> "rule",
         toks |-> << <<"b">>, <<"{">>, <<"v">>, <<":">>, <<"0">>, <<"}">> >>],
        \* @media { a { v: 0 } }
        [kind |-> "at-rule",
         toks |-> << <<"@">>, <<"m", "e", "d", "i", "a">>, <<"{">>, <<"a">>, <<"{">>,
                     <<"v">>, <<":">>, <<"0">>, <<"}">>, <<"}">> >>],
        \* @media {}
        [kind |-> "at-rule",
         toks |-> << <<"@">>, <<"m", "e", "d", "i", "a">>, <<"{">>, <<"}">> >>],
        \* @x { a {} }
        [kind |-> "at-rule",
         toks |-> << <<"@">>, <<"x">>, <<"{">>, <<"a">>, <<"{">>, <<"}">>, <<"}">> >>],
        \* @x {}
        [kind |-> "at-rule",
         toks |-> << <<"@">>, <<"x">>, <<"{">>, <<"}">> >>],
        \* a { v }
        [kind |-> "malformed",
         toks |-> << <<"a">>, <<"{">>, <<"v">>, <<"}">> >>],
        \* }
        [kind |-> "stray",
         toks |-> << <<"}">> >>],
        \* a {
        [kind |-> "unterminated",
         toks |-> << <<"a">>, <<"{">> >>]
    >>

BlockIds == 1 .. Len(Blocks)

Sources == UNION {[1 .. n -> BlockIds] : n \in 0 .. MaxBlocks}

\* the token slice of a source: the tokens of its blocks, one after another
RECURSIVE SourceTokens(_)
SourceTokens(bs) ==
    IF bs = <<>> THEN <<>> ELSE Blocks[bs[1]].toks \o SourceTokens(Tail(bs))

----------------------------------------------------------------------------
(* sheet(): (rule().map(Some) | media | unknown).repeat(0..), one          *)
(* repetition per step; the loop ends where all three alternatives fail.   *)

SheetInit ==
    /\ Document_new
    /\ segs \in Sources
    /\ tokens = SourceTokens(segs)
    /\ pos = 0
    /\ maybe_rules = <<>>
    /\ styleSheet = None
    /\ sheetPc = "parsing"
    /\ CssIdle /\ TokIdle /\ SelIdle

\* maybe_rules.into_iter().flatten().collect()
RECURSIVE flatten(_)
flatten(items) ==
    IF items = <<>> THEN <<>> ELSE items[1] \o flatten(Tail(items))

sheet_rule ==
    /\ sheetPc = "parsing"
    /\ rule(tokens, pos).ok
    /\ pos' = rule(tokens, pos).pos
    /\ maybe_rules' = Append(maybe_rules, Some(rule(tokens, pos).val))
    /\ UNCHANGED <<segs, tokens, styleSheet, sheetPc, docVars, restVars>>

sheet_media ==
    /\ sheetPc = "parsing"
    /\ ~rule(tokens, pos).ok
    /\ media(tokens, pos).ok
    /\ pos' = media(tokens, pos).pos
    /\ maybe_rules' = Append(maybe_rules, media(tokens, pos).val)
    /\ UNCHANGED <<segs, tokens, styleSheet, sheetPc, docVars, restVars>>

sheet_unknown ==
    /\ sheetPc = "parsing"
    /\ ~rule(tokens, pos).ok
    /\ ~media(tokens, pos).ok
    /\ unknown(tokens, pos).ok
    /\ pos' = unknown(tokens, pos).pos
    /\ maybe_rules' = Append(maybe_rules, unknown(tokens, pos).val)
    /\ UNCHANGED <<segs, tokens, styleSheet, sheetPc, docVars, restVars>>

\* no alternative matches: repeat(0..) ends and map builds the StyleSheet
sheet_end ==
    /\ sheetPc = "parsing"
    /\ ~rule(tokens, pos).ok
    /\ ~media(tokens, pos).ok
    /\ ~unknown(tokens, pos).ok
    /\ styleSheet' = Some([rules |-> flatten(maybe_rules)])
    /\ sheetPc' = "done"
    /\ UNCHANGED <<segs, tokens, pos, maybe_rules, docVars, restVars>>

SheetNext == sheet_rule \/ sheet_media \/ sheet_unknown \/ sheet_end

SpecSheet == SheetInit /\ [][SheetNext]_vars

----------------------------------------------------------------------------
(* Value parsers, css/parser.rs:119-231. A parser that panics unwinds      *)
(* through every combinator around it.                                     *)

Err(msg) == <<"err", msg>>

PanicP(msg)  == [ok |-> FALSE, panic |-> msg]
Panicked(r)  == "panic" \in DOMAIN r

\* Parser::parse(input): the value, or the error; the position reached is
\* dropped (the end of the input is not required)
parse(r) ==
    IF r.ok THEN Ok(r.val)
    ELSE IF Panicked(r) THEN Panic(r.panic)
    ELSE Err("mismatch")

\* f32 values are kept in thousandths
Milli == 1000

\* the decimal value of a run of digits, -1 if something else is in it
RECURSIVE digits_value(_, _)
digits_value(t, acc) ==
    IF t = <<>> THEN acc
    ELSE IF Head(t) \notin Digit THEN -1
    ELSE digits_value(Tail(t), acc * 10 + (CHOOSE d \in 0 .. 9 : ToString(d) = Head(t)))

\* str::parse::<f32> on [-]digits[.digits]; exponents, inf and nan are not
\* among the tokens of the model
f32_parse(t) ==
    LET neg   == t # <<>> /\ Head(t) = "-"
        body  == IF neg THEN Tail(t) ELSE t
        dots  == {i \in 1 .. Len(body) : body[i] = "."}
        dot   == IF dots = {} THEN Len(body) + 1 ELSE CHOOSE i \in dots : TRUE
        whole == SubSeq(body, 1, dot - 1)
        frac  == SubSeq(body, dot + 1, Len(body))
        frac3 == SubSeq(frac \o <<"0", "0", "0">>, 1, 3)
        w     == digits_value(whole, 0)
        f     == digits_value(frac3, 0)
    IN  IF Cardinality(dots) > 1 \/ (whole = <<>> /\ frac = <<>>) \/ w < 0 \/ f < 0
        THEN None
        ELSE Some((IF neg THEN -1 ELSE 1) * (w * Milli + f))

\* float(): any().convert(str::parse)
float(toks, p) ==
    IF p < Len(toks) /\ f32_parse(toks[p + 1]) # None
    THEN Succ(p + 1, f32_parse(toks[p + 1])[1])
    ELSE Fail

\* u8(): any().convert(str::parse)
u8(toks, p) ==
    IF /\ p < Len(toks)
       /\ toks[p + 1] # <<>>
       /\ digits_value(toks[p + 1], 0) \in 0 .. 255
    THEN Succ(p + 1, digits_value(toks[p + 1], 0))
    ELSE Fail

\* CssDimension
Px(v)      == <<"Px", v>>
Percent(v) == <<"Percent", v>>
Auto       == <<"Auto">>
\* CssDimension::ZERO: dimension().parse(&["0"]) is asserted to equal Px(0.)
CssDimension_ZERO == Px(0)

dimension_unit(toks, f, unit) ==
    IF f.ok THEN sym(toks, f.pos, unit) ELSE Fail

dimension(toks, p) ==
    IF dimension_unit(toks, float(toks, p), <<"p", "x">>).ok
    THEN Succ(p + 2, Px(float(toks, p).val))
    ELSE IF dimension_unit(toks, float(toks, p), <<"%">>).ok
    THEN Succ(p + 2, Percent(float(toks, p).val))
    ELSE IF sym(toks, p, <<"a", "u", "t", "o">>).ok
    THEN Succ(p + 1, Auto)
    ELSE IF sym(toks, p, <<"0">>).ok
    THEN Succ(p + 1, CssDimension_ZERO)
    ELSE Fail

\* pom::parser::list(dimension(), sym(" ")): items separated by " "; a
\* separator that no item follows is not consumed
RECURSIVE list_more(_, _, _)
list_more(toks, p, acc) ==
    IF sym(toks, p, <<" ">>).ok /\ dimension(toks, p + 1).ok
    THEN list_more(toks, dimension(toks, p + 1).pos, Append(acc, dimension(toks, p + 1).val))
    ELSE Succ(p, acc)

list(toks, p) ==
    IF dimension(toks, p).ok
    THEN list_more(toks, dimension(toks, p).pos, <<dimension(toks, p).val>>)
    ELSE Succ(p, <<>>)

\* the closure of sides_of's convert
sides_match(sides) ==
    CASE Len(sides) = 4 -> Some(<<sides[1], sides[2], sides[3], sides[4]>>)
      [] Len(sides) = 3 -> Some(<<sides[1], sides[2], sides[3], sides[2]>>)
      [] Len(sides) = 2 -> Some(<<sides[1], sides[2], sides[1], sides[2]>>)
      [] Len(sides) = 1 -> Some(<<sides[1], sides[1], sides[1], sides[1]>>)
      [] OTHER          -> None

\* the closure of sides_of's convert with a three-value arm that repeats the
\* first value
sides_convert_first(l) ==
    IF Len(l.val) = 3 THEN Succ(l.pos, <<l.val[1], l.val[2], l.val[3], l.val[1]>>)
    ELSE IF sides_match(l.val) = None THEN Fail
    ELSE Succ(l.pos, sides_match(l.val)[1])

\* list(..).convert(..)
sides_convert(l) ==
    IF sides_match(l.val) = None THEN Fail ELSE Succ(l.pos, sides_match(l.val)[1])

\* sides_of(dimension())
sides_of(toks, p) == sides_convert(list(toks, p))

\* Option::unwrap_or
unwrap_or(opt, default) == IF opt = None THEN default ELSE opt[1]

\* (sym(" ") * float()).opt()
flex_shrink(toks, p) ==
    IF sym(toks, p, <<" ">>).ok /\ float(toks, p + 1).ok
    THEN Succ(float(toks, p + 1).pos, Some(float(toks, p + 1).val))
    ELSE Succ(p, None)

\* (sym(" ") * dimension()).opt()
flex_basis(toks, p) ==
    IF sym(toks, p, <<" ">>).ok /\ dimension(toks, p + 1).ok
    THEN Succ(dimension(toks, p + 1).pos, Some(dimension(toks, p + 1).val))
    ELSE Succ(p, None)

\* the closure of flex().map
flex_map(grow, shrink, basis) ==
    Succ(basis.pos, <<grow.val, unwrap_or(shrink.val, 1 * Milli), unwrap_or(basis.val, Auto)>>)

flex_from_shrink(toks, grow, shrink) ==
    flex_map(grow, shrink, flex_basis(toks, shrink.pos))

\* flex(): float() + (sym(" ") * float()).opt() + (sym(" ") * dimension()).opt()
flex(toks, p) ==
    IF float(toks, p).ok
    THEN flex_from_shrink(toks, float(toks, p), flex_shrink(toks, float(toks, p).pos))
    ELSE Fail

\* CssOverflow::try_from(name): the exact name of a variant
CssOverflow_names == { <<"v", "i", "s", "i", "b", "l", "e">>, <<"h", "i", "d", "d", "e", "n">> }

\* try_from::<CssOverflow>(): ident().convert(T::try_from)
try_from_overflow(toks, p) ==
    IF ident(toks, p).ok /\ ident(toks, p).val \in CssOverflow_names
    THEN ident(toks, p)
    ELSE Fail

\* (sym(" ") * try_from()).opt()
overflow_y(toks, p) ==
    IF sym(toks, p, <<" ">>).ok /\ try_from_overflow(toks, p + 1).ok
    THEN Succ(try_from_overflow(toks, p + 1).pos, Some(try_from_overflow(toks, p + 1).val))
    ELSE Succ(p, None)

\* the closure of overflow().map
overflow_map(x, y) == Succ(y.pos, <<x.val, unwrap_or(y.val, x.val)>>)

\* overflow(): try_from() + (sym(" ") * try_from()).opt()
overflow(toks, p) ==
    IF try_from_overflow(toks, p).ok
    THEN overflow_map(try_from_overflow(toks, p), overflow_y(toks, try_from_overflow(toks, p).pos))
    ELSE Fail

\* CssColor
CssColor(r, g, b, a) == [r |-> r, g |-> g, b |-> b, a |-> a]
CssColor_TRANSPARENT == CssColor(0, 0, 0, 0)
CssColor_BLACK       == CssColor(0, 0, 0, 255)

HexDigits == <<"0", "1", "2", "3", "4", "5", "6", "7", "8", "9",
               "a", "b", "c", "d", "e", "f">>
HexUpper  == <<"0", "1", "2", "3", "4", "5", "6", "7", "8", "9",
               "A", "B", "C", "D", "E", "F">>

\* char::to_digit(16)
to_digit16(c) ==
    IF \E i \in 1 .. 16 : HexDigits[i] = c \/ HexUpper[i] = c
    THEN Some((CHOOSE i \in 1 .. 16 : HexDigits[i] = c \/ HexUpper[i] = c) - 1)
    ELSE None

\* u32::from_str_radix(s, 16) on at most six digits; eight digits are read as
\* two halves, see hex_num8
RECURSIVE from_str_radix16(_, _)
from_str_radix16(t, acc) ==
    IF t = <<>> THEN Some(acc)
    ELSE IF to_digit16(Head(t)) = None THEN None
    ELSE from_str_radix16(Tail(t), acc * 16 + to_digit16(Head(t))[1])

\* hex_val: to_digit(16).unwrap()
hex_val(byte) ==
    IF to_digit16(byte) = None THEN Panic("unwrap on None") ELSE Ok(to_digit16(byte)[1])

\* a u32 as its two 16-bit halves (the numbers of the checker are 32-bit signed)
U32(hi, lo) == [hi |-> hi, lo |-> lo]

\* u32::from_str_radix(hex, 16) for six digits, then num << 8 | 0xFF
hex_num6(hex) ==
    U32(from_str_radix16(hex, 0)[1] \div 256,
        (from_str_radix16(hex, 0)[1] % 256) * 256 + 255)

\* u32::from_str_radix(hex, 16) for eight digits
hex_num8(hex) ==
    U32(from_str_radix16(SubSeq(hex, 1, 4), 0)[1], from_str_radix16(SubSeq(hex, 5, 8), 0)[1])

\* CssColor { r: (num >> 24) & 0xFF, g: (num >> 16) & 0xFF, b: (num >> 8) & 0xFF,
\*            a: num & 0xFF }
hex_bytes(num) ==
    CssColor((num.hi \div 256) % 256, num.hi % 256, (num.lo \div 256) % 256, num.lo % 256)

\* from_str_radix(hex, 16) is Err: a character that is no hex digit
hex_invalid(hex) ==
    \/ from_str_radix16(SubSeq(hex, 1, 4), 0) = None
    \/ from_str_radix16(SubSeq(hex, 5, Len(hex)), 0) = None

\* the 8 | 6 arm of hex_color's closure
hex_long(hex) ==
    IF hex_invalid(hex) THEN Panic("unwrap on Err")
    ELSE Ok(hex_bytes(IF Len(hex) = 6 THEN hex_num6(hex) ELSE hex_num8(hex)))

\* the 4 | 3 arm with a nibble n expanded to n * 16
hex_short_shifted(hex) ==
    IF \E i \in 1 .. Len(hex) : IsPanic(hex_val(hex[i]))
    THEN Panic("unwrap on None")
    ELSE Ok(CssColor(hex_val(hex[1])[2] * 16, hex_val(hex[2])[2] * 16,
                     hex_val(hex[3])[2] * 16,
                     IF Len(hex) = 4 THEN hex_val(hex[4])[2] * 16 ELSE 255))

\* the 4 | 3 arm of hex_color's closure
hex_short(hex) ==
    IF \E i \in 1 .. Len(hex) : IsPanic(hex_val(hex[i]))
    THEN Panic("unwrap on None")
    ELSE Ok(CssColor(hex_val(hex[1])[2] * 17, hex_val(hex[2])[2] * 17,
                     hex_val(hex[3])[2] * 17,
                     IF Len(hex) = 4 THEN hex_val(hex[4])[2] * 17 ELSE 255))

\* the closure of hex_color's convert
hex_convert(hex) ==
    IF Len(hex) \in {6, 8} THEN hex_long(hex)
    ELSE IF Len(hex) \in {3, 4} THEN hex_short(hex)
    ELSE Err("invalid hex color")

\* hex_color: sym("#") * any().convert(..)
hex_color(toks, p) ==
    IF ~(sym(toks, p, <<"#">>).ok /\ any(toks, p + 1).ok) THEN Fail
    ELSE IF IsPanic(hex_convert(toks[p + 2])) THEN PanicP(hex_convert(toks[p + 2])[2])
    ELSE IF hex_convert(toks[p + 2])[1] = "ok" THEN Succ(p + 2, hex_convert(toks[p + 2])[2])
    ELSE Fail

\* u8() - sym(",") + u8(), as many times as there are channels
RECURSIVE channels(_, _, _, _)
channels(toks, p, n, acc) ==
    IF ~u8(toks, p).ok THEN Fail
    ELSE IF n = 1 THEN Succ(p + 1, Append(acc, u8(toks, p).val))
    ELSE IF ~sym(toks, p + 1, <<",">>).ok THEN Fail
    ELSE channels(toks, p + 2, n - 1, Append(acc, u8(toks, p).val))

rgb_close(toks, c) ==
    IF c.ok /\ sym(toks, c.pos, <<")">>).ok
    THEN Succ(c.pos + 1, CssColor(c.val[1], c.val[2], c.val[3], 255))
    ELSE Fail

rgb(toks, p) ==
    IF sym(toks, p, <<"r", "g", "b">>).ok /\ sym(toks, p + 1, <<"(">>).ok
    THEN rgb_close(toks, channels(toks, p + 2, 3, <<>>))
    ELSE Fail

\* (255. * a) as u8: the cast truncates and saturates
alpha8(a) ==
    LET v == (255 * a) \div Milli
    IN  IF a < 0 THEN 0 ELSE IF v > 255 THEN 255 ELSE v

rgba_close(toks, c, a) ==
    IF a.ok /\ sym(toks, a.pos, <<")">>).ok
    THEN Succ(a.pos + 1, CssColor(c.val[1], c.val[2], c.val[3], alpha8(a.val)))
    ELSE Fail

rgba_alpha(toks, c) ==
    IF c.ok /\ sym(toks, c.pos, <<",">>).ok
    THEN rgba_close(toks, c, float(toks, c.pos + 1))
    ELSE Fail

rgba(toks, p) ==
    IF sym(toks, p, <<"r", "g", "b", "a">>).ok /\ sym(toks, p + 1, <<"(">>).ok
    THEN rgba_alpha(toks, channels(toks, p + 2, 3, <<>>))
    ELSE Fail

\* CssColor::NAMED_COLORS: the names the tests of the parser look up
NAMED_COLORS ==
    [n \in {<<"t", "r", "a", "n", "s", "p", "a", "r", "e", "n", "t">>,
            <<"b", "l", "a", "c", "k">>} |->
        IF n = <<"b", "l", "a", "c", "k">> THEN CssColor_BLACK ELSE CssColor_TRANSPARENT]

named_color(toks, p) ==
    IF ident(toks, p).ok /\ toks[p + 1] \in DOMAIN NAMED_COLORS
    THEN Succ(p + 1, NAMED_COLORS[toks[p + 1]])
    ELSE Fail

\* color: hex_color | rgb | rgba | named_color
color(toks, p) ==
    IF hex_color(toks, p).ok \/ Panicked(hex_color(toks, p)) THEN hex_color(toks, p)
    ELSE IF rgb(toks, p).ok THEN rgb(toks, p)
    ELSE IF rgba(toks, p).ok THEN rgba(toks, p)
    ELSE named_color(toks, p)

\* background: sym("none").map(|_| TRANSPARENT) | color()
background(toks, p) ==
    IF sym(toks, p, <<"n", "o", "n", "e">>).ok THEN Succ(p + 1, CssColor_TRANSPARENT)
    ELSE color(toks, p)

----------------------------------------------------------------------------
(* Style and the property tables. Style, StyleProp, prop_parser and        *)
(* shorthand_parser belong to the parent module css, whose source is not   *)
(* part of the excerpt; they are modelled from the specification (section  *)
(* 4.4) and from what the tests of parser.rs assert about them.            *)

StyleProp(name, value) == <<name, value>>

\* a longhand entry: its value parser's result, mapped to the StyleProp
longhand(name, r) ==
    IF r.ok THEN Succ(r.pos, StyleProp(name, r.val)) ELSE r

\* prop_parser(prop): the longhand table, one value parser per name
prop_parser(property, value) ==
    CASE property = "color"            -> longhand("Color", color(value, 0))
      [] property = "background-color" -> longhand("BackgroundColor", color(value, 0))
      [] property = "padding-top"      -> longhand("PaddingTop", dimension(value, 0))
      [] property = "padding-left"     -> longhand("PaddingLeft", dimension(value, 0))
      [] OTHER                         -> Fail

\* the shorthand entries, each expanding to its longhands in canonical order
background_props(r) ==
    IF r.ok THEN Succ(r.pos, <<StyleProp("BackgroundColor", r.val)>>) ELSE r

padding_props(r) ==
    IF r.ok
    THEN Succ(r.pos, <<StyleProp("PaddingTop", r.val[1]), StyleProp("PaddingRight", r.val[2]),
                       StyleProp("PaddingBottom", r.val[3]), StyleProp("PaddingLeft", r.val[4])>>)
    ELSE r

\* shorthand_parser(prop): the shorthand table
shorthand_parser(property, value) ==
    CASE property = "background" -> background_props(background(value, 0))
      [] property = "padding"    -> padding_props(sides_of(value, 0))
      [] OTHER                   -> Fail

\* Style::add_prop: the entry of the same longhand is replaced, a new
\* longhand is appended
Style_add_prop(st, sp) ==
    IF \E i \in 1 .. Len(st) : st[i][1] = sp[1]
    THEN [i \in 1 .. Len(st) |-> IF st[i][1] = sp[1] THEN sp ELSE st[i]]
    ELSE Append(st, sp)

RECURSIVE Style_add_props(_, _)
Style_add_props(st, sps) ==
    IF sps = <<>> THEN st
    ELSE Style_add_props(Style_add_prop(st, Head(sps)), Tail(sps))

\* the else-if arm of parse_prop_into, r the result of the shorthand parser
into_shorthand(st, r) ==
    IF Panicked(r) THEN Panic(r.panic)
    ELSE IF r.ok THEN Ok(Style_add_props(st, r.val))
    ELSE Ok(st)

\* the if arm of parse_prop_into, r the result of the longhand parser
into_longhand(property, value, st, r) ==
    IF Panicked(r) THEN Panic(r.panic)
    ELSE IF r.ok THEN Ok(Style_add_prop(st, r.val))
    ELSE into_shorthand(st, shorthand_parser(property, value))

\* the if arm of parse_prop_into with Vec::push in place of add_prop
into_longhand_push(property, value, st, r) ==
    IF Panicked(r) THEN Panic(r.panic)
    ELSE IF r.ok THEN Ok(Append(st, r.val))
    ELSE into_shorthand(st, shorthand_parser(property, value))

\* parse_prop_into that pushes the longhand it parsed
parse_prop_into_push(property, value, st) ==
    into_longhand_push(property, value, st, prop_parser(property, value))

\* parse_prop_into(prop, value, &mut style): the Style afterwards, or the
\* panic that unwound the call
parse_prop_into(property, value, st) ==
    into_longhand(property, value, st, prop_parser(property, value))

----------------------------------------------------------------------------
(* The values and declarations the parsers are called with: what tokenize  *)
(* returns for the text in the comment.                                    *)

\* number of declarations applied to one Style
MaxDecls == 3
\* number of values in the list given to sides_of
MaxSides == 5

ColorValues ==
    <<  \* #fff
        [valid |-> TRUE,  toks |-> << <<"#">>, <<"f", "f", "f">> >>],
        \* #f00f
        [valid |-> TRUE,  toks |-> << <<"#">>, <<"f", "0", "0", "f">> >>],
        \* #000000
        [valid |-> TRUE,  toks |-> << <<"#">>, <<"0", "0", "0", "0", "0", "0">> >>],
        \* #00000080
        [valid |-> TRUE,  toks |-> << <<"#">>, <<"0", "0", "0", "0", "0", "0", "8", "0">> >>],
        \* black
        [valid |-> TRUE,  toks |-> << <<"b", "l", "a", "c", "k">> >>],
        \* rgb(0, 0, 0)
        [valid |-> TRUE,  toks |-> << <<"r", "g", "b">>, <<"(">>, <<"0">>, <<",">>, <<"0">>,
                                      <<",">>, <<"0">>, <<")">> >>],
        \* rgba(0, 0, 0, 0.5)
        [valid |-> TRUE,  toks |-> << <<"r", "g", "b", "a">>, <<"(">>, <<"0">>, <<",">>, <<"0">>,
                                      <<",">>, <<"0">>, <<",">>, <<"0", ".", "5">>, <<")">> >>],
        \* #ff: a length that is not supported
        [valid |-> FALSE, toks |-> << <<"#">>, <<"f", "f">> >>],
        \* #fffff
        [valid |-> FALSE, toks |-> << <<"#">>, <<"f", "f", "f", "f", "f">> >>],
        \* #ggg: length 3, not hexadecimal
        [valid |-> FALSE, toks |-> << <<"#">>, <<"g", "g", "g">> >>],
        \* #00gg00: length 6, not hexadecimal
        [valid |-> FALSE, toks |-> << <<"#">>, <<"0", "0", "g", "g", "0", "0">> >>],
        \* blak: no such name
        [valid |-> FALSE, toks |-> << <<"b", "l", "a", "k">> >>],
        \* rgb(0, 0)
        [valid |-> FALSE, toks |-> << <<"r", "g", "b">>, <<"(">>, <<"0">>, <<",">>, <<"0">>,
                                      <<")">> >>],
        \* rgb(256, 0, 0)
        [valid |-> FALSE, toks |-> << <<"r", "g", "b">>, <<"(">>, <<"2", "5", "6">>, <<",">>,
                                      <<"0">>, <<",">>, <<"0">>, <<")">> >>],
        \* #
        [valid |-> FALSE, toks |-> << <<"#">> >>],
        \* the empty value
        [valid |-> FALSE, toks |-> << >>]
    >>

\* 1px, 2%, auto, 0 and 3px
DimValues ==
    <<  << <<"1">>, <<"p", "x">> >>,
        << <<"2">>, <<"%">> >>,
        << <<"a", "u", "t", "o">> >>,
        << <<"0">> >>,
        << <<"3">>, <<"p", "x">> >>
    >>

\* the values of a list, separated by one space token each
RECURSIVE SpaceSeparated(_)
SpaceSeparated(ds) ==
    IF ds = <<>> THEN <<>>
    ELSE IF Len(ds) = 1 THEN DimValues[ds[1]]
    ELSE DimValues[ds[1]] \o << <<" ">> >> \o SpaceSeparated(Tail(ds))

Declarations ==
    <<  \* background-color: #fff
        [usable |-> TRUE,  prop |-> "background-color", value |-> ColorValues[1].toks],
        \* background-color: #000000
        [usable |-> TRUE,  prop |-> "background-color", value |-> ColorValues[3].toks],
        \* background: black
        [usable |-> TRUE,  prop |-> "background", value |-> ColorValues[5].toks],
        \* background: none
        [usable |-> TRUE,  prop |-> "background", value |-> << <<"n", "o", "n", "e">> >>],
        \* color: #fff
        [usable |-> TRUE,  prop |-> "color", value |-> ColorValues[1].toks],
        \* padding: 1px 2%
        [usable |-> TRUE,  prop |-> "padding", value |-> SpaceSeparated(<<1, 2>>)],
        \* padding-top: 3px
        [usable |-> TRUE,  prop |-> "padding-top", value |-> DimValues[5]],
        \* v: 0, a property that is not known
        [usable |-> FALSE, prop |-> "v", value |-> DimValues[4]],
        \* color: blak
        [usable |-> FALSE, prop |-> "color", value |-> ColorValues[12].toks],
        \* padding-top: black
        [usable |-> FALSE, prop |-> "padding-top", value |-> ColorValues[5].toks],
        \* padding: 1px 2% auto 0 3px
        [usable |-> FALSE, prop |-> "padding", value |-> SpaceSeparated(<<1, 2, 3, 4, 5>>)],
        \* color: #ggg
        [usable |-> FALSE, prop |-> "color", value |-> ColorValues[10].toks]
    >>

----------------------------------------------------------------------------
(* The value parsers, each called once on a value drawn from the library.  *)

\* the components of a flex value: the tokens and the value they stand for
FlexGrows ==
    <<  [toks |-> << <<"1">> >>, val |-> 1 * Milli],
        [toks |-> << <<"2">> >>, val |-> 2 * Milli] >>

FlexShrinks ==
    <<  [toks |-> << <<"3">> >>, val |-> 3 * Milli],
        [toks |-> << <<"0", ".", "5">> >>, val |-> 500] >>

FlexBases ==
    <<  [toks |-> << <<"a", "u", "t", "o">> >>, val |-> Auto],
        [toks |-> << <<"1", "0">>, <<"p", "x">> >>, val |-> Px(10 * Milli)],
        [toks |-> << <<"5", "0">>, <<"%">> >>, val |-> Percent(50 * Milli)] >>

\* a component after a space token, nothing for component 0
SpaceThen(lib, k) == IF k = 0 THEN <<>> ELSE << <<" ">> >> \o lib[k].toks

\* flex: <grow> [<shrink>] [<basis>]
FlexTokens(g, sh, b) ==
    FlexGrows[g].toks \o SpaceThen(FlexShrinks, sh) \o SpaceThen(FlexBases, b)

\* the names of an overflow value: two variants and a name that is none
OverflowNames ==
    <<  [toks |-> << <<"v", "i", "s", "i", "b", "l", "e">> >>, valid |-> TRUE],
        [toks |-> << <<"h", "i", "d", "d", "e", "n">> >>, valid |-> TRUE],
        [toks |-> << <<"n", "o">> >>, valid |-> FALSE] >>

\* overflow: <x> [<y>]
OverflowTokens(x, y) == OverflowNames[x].toks \o SpaceThen(OverflowNames, y)

\* channel values that every notation can write: one hex digit, the digit
\* twice, and the decimal number
ColorChannels ==
    <<  [nibble |-> "0", hex |-> <<"0", "0">>, dec |-> <<"0">>,           val |-> 0],
        [nibble |-> "1", hex |-> <<"1", "1">>, dec |-> <<"1", "7">>,      val |-> 17],
        [nibble |-> "8", hex |-> <<"8", "8">>, dec |-> <<"1", "3", "6">>, val |-> 136],
        [nibble |-> "a", hex |-> <<"a", "a">>, dec |-> <<"1", "7", "0">>, val |-> 170],
        [nibble |-> "F", hex |-> <<"F", "F">>, dec |-> <<"2", "5", "5">>, val |-> 255],
        [nibble |-> "f", hex |-> <<"f", "f">>, dec |-> <<"2", "5", "5">>, val |-> 255] >>

\* #rgb, #rgba
ShortHex(cs) == << <<"#">>, [i \in 1 .. Len(cs) |-> ColorChannels[cs[i]].nibble] >>

\* #rrggbb, #rrggbbaa
RECURSIVE LongDigits(_)
LongDigits(cs) ==
    IF cs = <<>> THEN <<>> ELSE ColorChannels[Head(cs)].hex \o LongDigits(Tail(cs))

LongHex(cs) == << <<"#">>, LongDigits(cs) >>

\* rgb(R, G, B)
RgbCall(cs) ==
    << <<"r", "g", "b">>, <<"(">>, ColorChannels[cs[1]].dec, <<",">>,
       ColorChannels[cs[2]].dec, <<",">>, ColorChannels[cs[3]].dec, <<")">> >>

\* rgba(R, G, B, 0)
RgbaCall(cs) ==
    << <<"r", "g", "b", "a">>, <<"(">>, ColorChannels[cs[1]].dec, <<",">>,
       ColorChannels[cs[2]].dec, <<",">>, ColorChannels[cs[3]].dec, <<",">>,
       <<"0">>, <<")">> >>

\* the tokens of a color of the given channels in the given notation
NotationTokens(form, cs) ==
    CASE form = "short" -> ShortHex(cs)
      [] form = "long"  -> LongHex(cs)
      [] form = "rgb"   -> RgbCall(cs)
      [] form = "rgba"  -> RgbaCall(cs)

\* the notations that can write the channels: rgb() has no alpha, rgba() is
\* written with alpha 0
Notations(cs) ==
    {"short", "long"}
    \cup (IF Len(cs) = 3 THEN {"rgb"} ELSE {})
    \cup (IF Len(cs) = 4 /\ cs[4] = 1 THEN {"rgba"} ELSE {})

\* the values handed to dimension(): the tokens, the form and the number
DimensionInputs ==
    <<  \* 0
        [toks |-> << <<"0">> >>, form |-> "zero", n |-> 0],
        \* 0px
        [toks |-> << <<"0">>, <<"p", "x">> >>, form |-> "px", n |-> 0],
        \* 10px
        [toks |-> << <<"1", "0">>, <<"p", "x">> >>, form |-> "px", n |-> 10 * Milli],
        \* 100%
        [toks |-> << <<"1", "0", "0">>, <<"%">> >>, form |-> "percent", n |-> 100 * Milli],
        \* 0%
        [toks |-> << <<"0">>, <<"%">> >>, form |-> "percent", n |-> 0],
        \* auto
        [toks |-> << <<"a", "u", "t", "o">> >>, form |-> "auto", n |-> 0] >>

Pending == <<"pending">>

ValInit ==
    /\ Document_new
    /\ SheetIdle /\ TokIdle /\ SelIdle
    /\ props = <<>>
    /\ applied = <<>>
    /\ \/ \E i \in 1 .. Len(ColorValues) : cssCall = Call(<<"color", i>>, Pending)
       \/ \E n \in 0 .. MaxSides : \E ds \in [1 .. n -> 1 .. Len(DimValues)] :
              cssCall = Call(<<"sides_of", ds>>, Pending)
       \/ \E g \in 1 .. Len(FlexGrows) : \E sh \in 0 .. Len(FlexShrinks) :
          \E b \in 0 .. Len(FlexBases) :
              cssCall = Call(<<"flex", g, sh, b>>, Pending)
       \/ \E x \in 1 .. Len(OverflowNames) : \E y \in 0 .. Len(OverflowNames) :
              cssCall = Call(<<"overflow", x, y>>, Pending)
       \/ \E i \in 1 .. Len(DimensionInputs) : cssCall = Call(<<"dimension", i>>, Pending)
       \/ \E n \in {3, 4} : \E cs \in [1 .. n -> 1 .. Len(ColorChannels)] :
          \E form \in Notations(cs) :
              cssCall = Call(<<"color_notation", form, cs>>, Pending)

\* color().parse(value)
color_call ==
    /\ cssCall.ret = Pending
    /\ cssCall.call[1] = "color"
    /\ cssCall' = Call(cssCall.call, parse(color(ColorValues[cssCall.call[2]].toks, 0)))
    /\ UNCHANGED <<props, applied, docVars, sheetVars, tokVars, selVars>>

\* sides_of(dimension()).parse(value)
sides_of_call ==
    /\ cssCall.ret = Pending
    /\ cssCall.call[1] = "sides_of"
    /\ cssCall' = Call(cssCall.call, parse(sides_of(SpaceSeparated(cssCall.call[2]), 0)))
    /\ UNCHANGED <<props, applied, docVars, sheetVars, tokVars, selVars>>

\* flex().parse(value)
flex_call ==
    /\ cssCall.ret = Pending
    /\ cssCall.call[1] = "flex"
    /\ cssCall' = Call(cssCall.call,
                       parse(flex(FlexTokens(cssCall.call[2], cssCall.call[3], cssCall.call[4]), 0)))
    /\ UNCHANGED <<props, applied, docVars, sheetVars, tokVars, selVars>>

\* overflow().parse(value)
overflow_call ==
    /\ cssCall.ret = Pending
    /\ cssCall.call[1] = "overflow"
    /\ cssCall' = Call(cssCall.call,
                       parse(overflow(OverflowTokens(cssCall.call[2], cssCall.call[3]), 0)))
    /\ UNCHANGED <<props, applied, docVars, sheetVars, tokVars, selVars>>

\* color().parse(value), the value written in one of the notations
color_notation_call ==
    /\ cssCall.ret = Pending
    /\ cssCall.call[1] = "color_notation"
    /\ cssCall' = Call(cssCall.call,
                       parse(color(NotationTokens(cssCall.call[2], cssCall.call[3]), 0)))
    /\ UNCHANGED <<props, applied, docVars, sheetVars, tokVars, selVars>>

\* dimension().parse(value)
dimension_call ==
    /\ cssCall.ret = Pending
    /\ cssCall.call[1] = "dimension"
    /\ cssCall' = Call(cssCall.call, parse(dimension(DimensionInputs[cssCall.call[2]].toks, 0)))
    /\ UNCHANGED <<props, applied, docVars, sheetVars, tokVars, selVars>>

ValNext ==
    \/ dimension_call
    \/ color_call
    \/ sides_of_call
    \/ flex_call
    \/ overflow_call
    \/ color_notation_call

SpecVal == ValInit /\ [][ValNext]_vars

----------------------------------------------------------------------------
(* style(): the declarations of one rule, applied to its Style in source   *)
(* order, one parse_prop_into call per step. A panic ends the run.         *)

CssRunning == ~IsPanic(cssCall.ret)

CssInit ==
    /\ Document_new
    /\ SheetIdle /\ CssIdle /\ TokIdle /\ SelIdle

\* style()'s loop body: r is what parse_prop_into made of declaration i
prop_applied(i, r) ==
    /\ cssCall' = Call(<<"parse_prop_into", i>>, IF IsPanic(r) THEN r ELSE Ok(Unit))
    /\ props' = IF IsPanic(r) THEN props ELSE r[2]
    /\ applied' = Append(applied, i)
    /\ UNCHANGED <<docVars, sheetVars, tokVars, selVars>>

parse_prop_into_call(i) ==
    /\ CssRunning
    /\ Len(applied) < MaxDecls
    /\ prop_applied(i, parse_prop_into(Declarations[i].prop, Declarations[i].value, props))

CssNext == \E i \in 1 .. Len(Declarations) : parse_prop_into_call(i)

SpecCss == CssInit /\ [][CssNext]_vars

----------------------------------------------------------------------------
(* tokenize(), css/parser.rs:258-293. The input is a sequence of bytes, an *)
(* ASCII byte written as its character; "C3" and "A9" are the two bytes of *)
(* the UTF-8 encoding of a non-ASCII character.                            *)

Whitespace   == {" ", "\t", "\r", "\n"}
NumBytes     == Digit \cup {"."}
AlphanumBytes == Lower \cup Upper \cup Digit
IdentBytes   == AlphanumBytes \cup {"-"}

\* seq(b1 b2) matches at p
seq_at(inp, p, b1, b2) ==
    p + 1 < Len(inp) /\ inp[p + 1] = b1 /\ inp[p + 2] = b2

\* (!seq(b"*/") * skip(1)).repeat(0..): where the loop ends
RECURSIVE comment_body(_, _)
comment_body(inp, p) ==
    IF ~seq_at(inp, p, "*", "/") /\ p < Len(inp) THEN comment_body(inp, p + 1) ELSE p

\* comment: seq(b"/*") * (..).repeat(0..) - seq(b"*/")
tk_comment(inp, p) ==
    IF seq_at(inp, p, "/", "*") /\ seq_at(inp, comment_body(inp, p + 2), "*", "/")
    THEN Succ(comment_body(inp, p + 2) + 2, Unit)
    ELSE Fail

\* is_a(class).repeat(..) / one_of(class).repeat(..): where the run ends
RECURSIVE run(_, _, _)
run(inp, p, class) ==
    IF p < Len(inp) /\ inp[p + 1] \in class THEN run(inp, p + 1, class) ELSE p

\* none_of(quote).repeat(0..): where the run ends
RECURSIVE run_none_of(_, _, _)
run_none_of(inp, p, quote) ==
    IF p < Len(inp) /\ inp[p + 1] # quote THEN run_none_of(inp, p + 1, quote) ELSE p

\* .collect() of a match from p to q: the slice of the input between them
collect(inp, p, q) == Succ(q, SubSeq(inp, p + 1, q))

\* space: one_of(b" \t\r\n").discard().repeat(1..).map(|_| b" ")
tk_space(inp, p) ==
    IF run(inp, p, Whitespace) > p THEN Succ(run(inp, p, Whitespace), <<" ">>) ELSE Fail

\* hex_or_id: prev(1) * sym(b'#') * is_a(alphanum).repeat(1..), collected
tk_hex_or_id(inp, p) ==
    IF p >= 1 /\ inp[p] = "#" /\ run(inp, p, AlphanumBytes) > p
    THEN collect(inp, p, run(inp, p, AlphanumBytes))
    ELSE Fail

\* num: sym(b'-').opt() + one_of(b".0123456789").repeat(1..), collected
tk_num_from(inp, p, q) ==
    IF run(inp, q, NumBytes) > q THEN collect(inp, p, run(inp, q, NumBytes)) ELSE Fail

tk_num(inp, p) ==
    tk_num_from(inp, p, IF p < Len(inp) /\ inp[p + 1] = "-" THEN p + 1 ELSE p)

\* ident: is_a(alphanum_dash).repeat(1..), collected
tk_ident(inp, p) ==
    IF run(inp, p, IdentBytes) > p THEN collect(inp, p, run(inp, p, IdentBytes)) ELSE Fail

\* string1, string2: sym(quote) + none_of(quote).repeat(0..) + sym(quote)
tk_string_to(inp, p, q, quote) ==
    IF q < Len(inp) /\ inp[q + 1] = quote THEN collect(inp, p, q + 1) ELSE Fail

tk_string(inp, p, quote) ==
    IF p < Len(inp) /\ inp[p + 1] = quote
    THEN tk_string_to(inp, p, run_none_of(inp, p + 1, quote), quote)
    ELSE Fail

\* special: any().collect()
tk_special(inp, p) ==
    IF p < Len(inp) THEN collect(inp, p, p + 1) ELSE Fail

\* space | hex_or_id | num | ident | string1 | string2 | special
tk_alternatives(inp, p) ==
    IF tk_space(inp, p).ok THEN tk_space(inp, p)
    ELSE IF tk_hex_or_id(inp, p).ok THEN tk_hex_or_id(inp, p)
    ELSE IF tk_num(inp, p).ok THEN tk_num(inp, p)
    ELSE IF tk_ident(inp, p).ok THEN tk_ident(inp, p)
    ELSE IF tk_string(inp, p, "'").ok THEN tk_string(inp, p, "'")
    ELSE IF tk_string(inp, p, "\"").ok THEN tk_string(inp, p, "\"")
    ELSE tk_special(inp, p)

\* std::str::from_utf8(bytes) is Ok
RECURSIVE from_utf8_ok(_)
from_utf8_ok(bytes) ==
    IF bytes = <<>> THEN TRUE
    ELSE IF Head(bytes) = "A9" THEN FALSE
    ELSE IF Head(bytes) = "C3"
         THEN Len(bytes) >= 2 /\ bytes[2] = "A9" /\ from_utf8_ok(Tail(Tail(bytes)))
    ELSE from_utf8_ok(Tail(bytes))

\* .convert(std::str::from_utf8)
tk_convert(r) ==
    IF r.ok /\ from_utf8_ok(r.val) THEN r ELSE Fail

\* token: comment.opt() * (space | ... | special), converted to &str
tk_token(inp, p) ==
    tk_convert(tk_alternatives(inp, IF tk_comment(inp, p).ok THEN tk_comment(inp, p).pos ELSE p))

\* token.repeat(0..).parse(input).unwrap(): the tokens from p on
RECURSIVE tk_tokens(_, _, _)
tk_tokens(inp, p, acc) ==
    IF tk_token(inp, p).ok
    THEN tk_tokens(inp, tk_token(inp, p).pos, Append(acc, tk_token(inp, p).val))
    ELSE acc

\* the test on the token after a space: the space goes unless next starts a
\* component
starts_component(next) ==
    alphanum_dash(next[1]) \/ next = <<".">> \/ next = <<"#">> \/ next = <<"*">>

\* the loop body `continue`s at tokens[i] (i counted from 0)
strip_skips(toks, i, keep) ==
    /\ toks[i + 1] = <<" ">>
    /\ \/ ~keep
       \/ i + 1 < Len(toks) /\ ~starts_component(toks[i + 2])

\* keep_space after tokens[i] was pushed
ends_component(t) ==
    alphanum_dash(t[1]) \/ t = <<"*">> \/ t = <<"]">>

\* the whitespace-stripping loop from index i on
RECURSIVE strip(_, _, _, _)
strip(toks, i, keep, acc) ==
    IF i >= Len(toks) THEN acc
    ELSE IF strip_skips(toks, i, keep) THEN strip(toks, i + 1, keep, acc)
    ELSE strip(toks, i + 1, ends_component(toks[i + 1]), Append(acc, toks[i + 1]))

\* tokenize(input)
tokenize(inp) == strip(tk_tokens(inp, 0, <<>>), 0, FALSE, <<>>)

----------------------------------------------------------------------------
(* The inputs of tokenize: up to MaxPieces pieces in a row. A piece is an  *)
(* atom (text that is tokens) or a gap (whitespace and comments); min is   *)
(* the minimal form of a gap, one space.                                   *)

\* number of pieces in one input
MaxPieces == 3

Pieces ==
    <<  \* ab
        [kind |-> "atom", bytes |-> <<"a", "b">>],
        \* {
        [kind |-> "atom", bytes |-> <<"{">>],
        \* .
        [kind |-> "atom", bytes |-> <<".">>],
        \* #0f
        [kind |-> "atom", bytes |-> <<"#", "0", "f">>],
        \* a non-ASCII character, e.g. e with acute accent
        [kind |-> "atom", bytes |-> <<"C3", "A9">>],
        \* one space
        [kind |-> "gap", bytes |-> <<" ">>],
        \* space, newline
        [kind |-> "gap", bytes |-> <<" ", "\n">>],
        \* space, comment, space
        [kind |-> "gap", bytes |-> <<" ", "/", "*", "x", "*", "/", " ">>],
        \* two adjacent comments, space
        [kind |-> "gap", bytes |-> <<"/", "*", "*", "/", "/", "*", "*", "/", " ">>]
    >>

TokSources == UNION {[1 .. n -> 1 .. Len(Pieces)] : n \in 0 .. MaxPieces}

\* the bytes of a source
RECURSIVE SourceBytes(_)
SourceBytes(ps) ==
    IF ps = <<>> THEN <<>> ELSE Pieces[Head(ps)].bytes \o SourceBytes(Tail(ps))

\* the minimal form of a source: each run of gaps is one space
RECURSIVE MinimalBytes(_, _)
MinimalBytes(ps, afterGap) ==
    IF ps = <<>> THEN <<>>
    ELSE IF Pieces[Head(ps)].kind = "gap"
         THEN (IF afterGap THEN <<>> ELSE <<" ">>) \o MinimalBytes(Tail(ps), TRUE)
    ELSE Pieces[Head(ps)].bytes \o MinimalBytes(Tail(ps), FALSE)

----------------------------------------------------------------------------
(* tokenize() step by step: the first pass takes one token per step, the   *)
(* second pass visits one token per step.                                  *)

TokInit ==
    /\ Document_new
    /\ SheetIdle /\ CssIdle /\ SelIdle
    /\ tkSrc \in TokSources
    /\ input = SourceBytes(tkSrc)
    /\ tkPc = "tokens"
    /\ tkPos = 0
    /\ rawTokens = <<>>
    /\ stripIdx = 0
    /\ res = <<>>
    /\ keep_space = FALSE

\* token.repeat(0..): one more token
tokenize_token ==
    /\ tkPc = "tokens"
    /\ tk_token(input, tkPos).ok
    /\ tkPos' = tk_token(input, tkPos).pos
    /\ rawTokens' = Append(rawTokens, tk_token(input, tkPos).val)
    /\ UNCHANGED <<tkSrc, input, tkPc, stripIdx, res, keep_space,
                   docVars, sheetVars, cssVars, selVars>>

\* token fails: repeat(0..) ends, parse(input).unwrap() returns the tokens
tokenize_parsed ==
    /\ tkPc = "tokens"
    /\ ~tk_token(input, tkPos).ok
    /\ tkPc' = "strip"
    /\ UNCHANGED <<tkSrc, input, tkPos, rawTokens, stripIdx, res, keep_space,
                   docVars, sheetVars, cssVars, selVars>>

\* for (i, &t) in tokens.iter().enumerate(): a space that is dropped
tokenize_skip ==
    /\ tkPc = "strip"
    /\ stripIdx < Len(rawTokens)
    /\ strip_skips(rawTokens, stripIdx, keep_space)
    /\ stripIdx' = stripIdx + 1
    /\ UNCHANGED <<tkSrc, input, tkPc, tkPos, rawTokens, res, keep_space,
                   docVars, sheetVars, cssVars, selVars>>

\* for (i, &t) in tokens.iter().enumerate(): a token that is pushed
tokenize_push ==
    /\ tkPc = "strip"
    /\ stripIdx < Len(rawTokens)
    /\ ~strip_skips(rawTokens, stripIdx, keep_space)
    /\ res' = Append(res, rawTokens[stripIdx + 1])
    /\ keep_space' = ends_component(rawTokens[stripIdx + 1])
    /\ stripIdx' = stripIdx + 1
    /\ UNCHANGED <<tkSrc, input, tkPc, tkPos, rawTokens,
                   docVars, sheetVars, cssVars, selVars>>

\* the loop is over: res is returned
tokenize_return ==
    /\ tkPc = "strip"
    /\ stripIdx >= Len(rawTokens)
    /\ tkPc' = "done"
    /\ UNCHANGED <<tkSrc, input, tkPos, rawTokens, stripIdx, res, keep_space,
                   docVars, sheetVars, cssVars, selVars>>

TokNext ==
    \/ tokenize_token
    \/ tokenize_parsed
    \/ tokenize_skip
    \/ tokenize_push
    \/ tokenize_return

SpecTok == TokInit /\ [][TokNext]_vars

----------------------------------------------------------------------------
(* Selector::from(text): the text is tokenized and handed to selector();   *)
(* a text that selector() does not parse to its end is the selector of one *)
(* Unsupported component (tests::parse_selector, css/parser.rs:517-521).   *)

Selector_unsupported == [parts |-> <<Component(Unsupported)>>]

Selector_from_parsed(toks, r) ==
    IF r.ok /\ r.pos = Len(toks) THEN r.val ELSE Selector_unsupported

Selector_from_tokens(toks) == Selector_from_parsed(toks, selector(toks, 0))

Selector_from(text) == Selector_from_tokens(tokenize(text))

----------------------------------------------------------------------------
(* The selector texts: up to MaxSelPieces pieces in a row, a piece being   *)
(* the text of one tag or of one combinator; part is the selector part the *)
(* piece stands for.                                                       *)

\* number of pieces in one selector text
MaxSelPieces == 3

SelPieces ==
    <<  \* a
        [kind |-> "tag", bytes |-> <<"a">>,
         part |-> Component(LocalName(<<"a">>))],
        \* #b
        [kind |-> "tag", bytes |-> <<"#", "b">>,
         part |-> Component(Identifier(<<"b">>))],
        \* .c
        [kind |-> "tag", bytes |-> <<".", "c">>,
         part |-> Component(ClassName(<<"c">>))],
        \* *
        [kind |-> "tag", bytes |-> <<"*">>,
         part |-> Combinator("Universal")],
        \* [x]
        [kind |-> "tag", bytes |-> <<"[", "x", "]">>,
         part |-> Component(Unsupported)],
        \* :h
        [kind |-> "tag", bytes |-> <<":", "h">>,
         part |-> Component(Unsupported)],
        \* ::h
        [kind |-> "tag", bytes |-> <<":", ":", "h">>,
         part |-> Component(Unsupported)],
        \* child
        [kind |-> "comb", bytes |-> <<" ", ">", " ">>,
         part |-> Combinator("Parent")],
        \* descendant
        [kind |-> "comb", bytes |-> <<" ">>,
         part |-> Combinator("Ancestor")],
        \* group
        [kind |-> "comb", bytes |-> <<",", " ">>,
         part |-> Combinator("Or")],
        \* next sibling
        [kind |-> "comb", bytes |-> <<" ", "+", " ">>,
         part |-> Component(Unsupported)],
        \* subsequent sibling
        [kind |-> "comb", bytes |-> <<" ", "~", " ">>,
         part |-> Component(Unsupported)]
    >>

\* the pieces whose text is not supported selector syntax
UnsupportedPieces == {5, 6, 7, 11, 12}

\* tag (combinator? tag)*, a local name only where a compound starts
WellFormedSelector(ps) ==
    /\ ps # <<>>
    /\ SelPieces[ps[1]].kind = "tag"
    /\ SelPieces[ps[Len(ps)]].kind = "tag"
    /\ \A i \in 2 .. Len(ps) :
          /\ SelPieces[ps[i]].kind = "comb" => SelPieces[ps[i - 1]].kind = "tag"
          /\ ps[i] = 1 => SelPieces[ps[i - 1]].kind = "comb"

\* a > a.c a#b   and   a > a, a a a   (tests::parse_selector)
LongSelectors ==
    { <<1, 8, 1, 3, 9, 1, 2>>, <<1, 8, 1, 10, 1, 9, 1, 9, 1>> }

\* the empty text, a lone space, a,,a  a>>a  a>  >a
MalformedSelectors ==
    { <<>>, <<9>>, <<1, 10, 10, 1>>, <<1, 8, 8, 1>>, <<1, 8>>, <<8, 1>> }

SelSources ==
    {ps \in UNION {[1 .. n -> 1 .. Len(SelPieces)] : n \in 1 .. MaxSelPieces} :
        WellFormedSelector(ps)}
    \cup LongSelectors \cup MalformedSelectors

\* the text of a selector
RECURSIVE SelBytes(_)
SelBytes(ps) ==
    IF ps = <<>> THEN <<>> ELSE SelPieces[Head(ps)].bytes \o SelBytes(Tail(ps))

\* a sheet of two rules, the first with the selector text: <text> {} c {}
SelSheetBytes(ps) ==
    SelBytes(ps) \o <<" ", "{", "}", " ", "c", " ", "{", "}">>

----------------------------------------------------------------------------
(* One selector text, used in one of three ways: parsed by selector(),     *)
(* converted by Selector::from, or parsed by sheet() as the selector of    *)
(* the first rule of a sheet.                                              *)

SelInit ==
    /\ Document_new
    /\ CssIdle /\ TokIdle
    /\ selSrc \in SelSources
    /\ segs = <<>>
    /\ maybe_rules = <<>>
    /\ styleSheet = None
    /\ pos = 0
    /\ \/ /\ selCall = Call(<<"selector">>, Pending)
          /\ tokens = <<>> /\ sheetPc = "idle"
       \/ /\ selCall = Call(<<"Selector::from">>, Pending)
          /\ tokens = <<>> /\ sheetPc = "idle"
       \/ /\ selCall = Call(<<"sheet">>, Pending)
          /\ tokens = tokenize(SelSheetBytes(selSrc)) /\ sheetPc = "parsing"

\* selector().parse(&tokenize(text))
selector_call ==
    /\ selCall.ret = Pending
    /\ selCall.call[1] = "selector"
    /\ selCall' = Call(selCall.call, parse(selector(tokenize(SelBytes(selSrc)), 0)))
    /\ UNCHANGED <<selSrc, docVars, sheetVars, cssVars, tokVars>>

\* Selector::from(text)
Selector_from_call ==
    /\ selCall.ret = Pending
    /\ selCall.call[1] = "Selector::from"
    /\ selCall' = Call(selCall.call, Ok(Selector_from(SelBytes(selSrc))))
    /\ UNCHANGED <<selSrc, docVars, sheetVars, cssVars, tokVars>>

SelNext ==
    \/ selector_call
    \/ Selector_from_call
    \/ sheet_rule
    \/ sheet_unknown
    \/ sheet_end

SpecSel == SelInit /\ [][SelNext]_vars

----------------------------------------------------------------------------
(* Reading the tree and the log *)

Last(s) == s[Len(s)]

\* the events the step delivered: log' is log followed by them
Delivered(evs) ==
    /\ Len(log') = Len(log) + Len(evs)
    /\ SubSeq(log', 1, Len(log)) = log
    /\ SubSeq(Events(log'), Len(log) + 1, Len(log')) = evs

\* the name of the call a step made
Called(name) == lastCall'.call[1] = name
Returned     == ~IsPanic(lastCall'.ret)

Count(x, s) == Cardinality({i \in 1 .. Len(s) : s[i] = x})

\* live nodes found from the root through the children lists
RECURSIVE Closure(_)
Closure(S) ==
    LET S2 == S \cup {c \in Live : \E p \in S : c \in Range(tree[p].children)}
    IN  IF S2 = S THEN S ELSE Closure(S2)

Reachable == Closure({root} \cap Live)

\* events that create, attach or detach n
IsPlacement(e, n) ==
    \/ e[1] \in {"ElementCreated", "TextNodeCreated"} /\ e[2] = n
    \/ e[1] \in {"NodeInserted", "NodeRemoved"} /\ e[3] = n

\* n is freshly created, or removed and not freed
Detached(n) ==
    /\ n \in Live
    /\ n # root
    /\ LET at == {i \in 1 .. Len(log) : IsPlacement(log[i].event, n)}
       IN  /\ at # {}
           /\ LET last == CHOOSE i \in at : \A j \in at : j <= i
              IN  log[last].event[1] # "NodeInserted"

SlotsOtherThan(n) == DOMAIN tree \ {n}

----------------------------------------------------------------------------
(* Claims about the Document *)

\* C1: insert_child(parent, child, index) delivers exactly NodeInserted(parent,
\* child, index) and then ParentChanged(child); remove_child(parent, child)
\* delivers exactly NodeRemoved(parent, child) and then ParentChanged(child),
\* and the listener sees parent(child) = None when it receives the latter.
C1_StructuralEvents ==
    [][ /\ Called("insert_child") =>
            LET c == lastCall'.call
            IN  Delivered(<<NodeInserted(c[2], c[3], c[4]), ParentChanged(c[3])>>)
        /\ Called("remove_child") =>
            LET c == lastCall'.call
            IN  /\ Delivered(<<NodeRemoved(c[2], c[3]), ParentChanged(c[3])>>)
                /\ IdTree_parent(Last(log').tree, c[3]) = None
      ]_vars

\* a node was created, inserted under the root and removed again
C1_Witness ==
    /\ lastCall.call[1] = "remove_child"
    /\ lastCall.call[2] = root
    /\ lastCall.call[3] # root
    /\ tree[lastCall.call[3]].parent = None
    /\ Len(log) >= 5
    /\ Last(log).event[1] = "ParentChanged"
    /\ log[Len(log) - 1].event[1] = "NodeRemoved"
    /\ log[Len(log) - 3].event[1] = "NodeInserted"

\* C2: every node other than the root that is reachable from the root has
\* exactly one parent, a live node, and occurs exactly once in that parent's
\* children and in no other node's children; every detached node (freshly
\* created, or removed and not freed) has no parent and is not reachable.
C2_TreeShape ==
    \A n \in Live :
        /\ (n \in Reachable /\ n # root) =>
              \E p \in Live :
                  /\ tree[n].parent = Some(p)
                  /\ Count(n, tree[p].children) = 1
                  /\ \A q \in Live \ {p} : n \notin Range(tree[q].children)
        /\ Detached(n) => (tree[n].parent = None /\ n \notin Reachable)

\* C3: the root is a live element node in every reachable state.
C3_RootAlive ==
    /\ root \in Live
    /\ tree[root].data.kind = "Element"

\* C4: create_element and create_text_node return an id that no live node
\* has, deliver exactly one creation event of the created kind carrying that
\* id, and leave the new node without parent and without children.
C4_Create ==
    [][ \A k \in {"Element", "Text"} :
          Called(IF k = "Element" THEN "create_element" ELSE "create_text_node") =>
            LET id == lastCall'.ret[2]
            IN  /\ id \notin DOMAIN tree
                /\ id \in DOMAIN tree'
                /\ Delivered(<<IF k = "Element" THEN ElementCreated(id)
                                                ELSE TextNodeCreated(id)>>)
                /\ tree'[id].data.kind = k
                /\ tree'[id].parent = None
                /\ tree'[id].children = <<>>
      ]_vars

\* a creation that reuses the id of a node destroyed before
C4_Witness ==
    /\ lastCall.call[1] \in {"create_element", "create_text_node"}
    /\ Last(log).event[2] = lastCall.ret[2]
    /\ \E i \in 1 .. Len(log) : log[i].event = NodeDestroyed(lastCall.ret[2])

\* C5: free_node(node) reclaims the slot of node and no other: every other
\* slot, the children of node among them, stays allocated and unchanged, and
\* the one event delivered is NodeDestroyed(node).
C5_FreeNotRecursive ==
    [][ Called("free_node") =>
            LET n == lastCall'.call[2]
            IN  /\ DOMAIN tree' = SlotsOtherThan(n)
                /\ \A m \in DOMAIN tree' : tree'[m] = tree[m]
                /\ Delivered(<<NodeDestroyed(n)>>)
      ]_vars

\* a node was freed while it had a child, and the child is still there
C5_Witness ==
    /\ lastCall.call[1] = "free_node"
    /\ \E c \in Live : tree[c].parent = Some(lastCall.call[2])
    /\ Last(log).event = NodeDestroyed(lastCall.call[2])

\* C6: a successful set_attribute, remove_attribute or set_text changes the
\* payload of its node and nothing else (every parent and children list and
\* every other payload is unchanged) and delivers exactly one event:
\* AttributesChanged(node) resp. TextChanged(node).
C6_PayloadOnly ==
    [][ (Returned /\ (Called("set_attribute") \/ Called("remove_attribute")
                        \/ Called("set_text"))) =>
            LET n == lastCall'.call[2]
            IN  /\ DOMAIN tree' = DOMAIN tree
                /\ root' = root
                /\ \A m \in DOMAIN tree :
                      /\ tree'[m].parent = tree[m].parent
                      /\ tree'[m].children = tree[m].children
                      /\ m # n => tree'[m].data = tree[m].data
                /\ Delivered(<<IF Called("set_text") THEN TextChanged(n)
                                                     ELSE AttributesChanged(n)>>)
      ]_vars

\* an attribute was set on an element that has a parent
C6_Witness ==
    /\ lastCall.call[1] = "set_attribute"
    /\ ~IsPanic(lastCall.ret)
    /\ tree[lastCall.call[2]].parent # None
    /\ tree[lastCall.call[2]].data.attributes[lastCall.call[3]] = lastCall.call[4]

ReadAccessors ==
    {"root", "is_element", "is_text", "parent", "children", "local_name",
     "attribute", "text"}

\* C7: a call of a read accessor leaves the document unchanged and delivers
\* no event.
C7_ReadsArePure ==
    [][ lastCall'.call[1] \in ReadAccessors =>
            /\ tree' = tree
            /\ root' = root
            /\ log' = log
      ]_vars

\* attribute() read back a value that set_attribute stored
C7_Witness ==
    /\ lastCall.call[1] = "attribute"
    /\ ~IsPanic(lastCall.ret)
    /\ lastCall.ret[2] # None
    /\ Last(log).event[1] = "AttributesChanged"

\* C8: text() on an element, and local_name, attribute, set_attribute or
\* remove_attribute on a text node, panic: the call returns nothing, the
\* document is unchanged and no event is delivered.
C8_WrongKindAborts ==
    [][ LET n == lastCall'.call[2]
        IN  (\/ Called("text") /\ tree[n].data.kind = "Element"
             \/ /\ \/ Called("local_name") \/ Called("attribute")
                   \/ Called("set_attribute") \/ Called("remove_attribute")
                /\ tree[n].data.kind = "Text")
            => /\ IsPanic(lastCall'.ret)
               /\ tree' = tree
               /\ root' = root
               /\ log' = log
      ]_vars

\* set_attribute was called on a text node
C8_Witness ==
    /\ lastCall.call[1] = "set_attribute"
    /\ IsPanic(lastCall.ret)
    /\ tree[lastCall.call[2]].data.kind = "Text"

----------------------------------------------------------------------------
(* Claims about the stylesheet parser *)

\* the Rules of the well-formed rules of a source, in source order: each
\* block of kind "rule", parsed on its own
RECURSIVE WellFormedRules(_)
WellFormedRules(bs) ==
    IF bs = <<>> THEN <<>>
    ELSE (IF Blocks[bs[1]].kind = "rule"
          THEN <<rule(Blocks[bs[1]].toks, 0).val>>
          ELSE <<>>) \o WellFormedRules(Tail(bs))

Forgivable == {"rule", "at-rule", "malformed"}

\* C9: for a source made of well-formed rules, at-rules (with or without
\* nested blocks) and malformed blocks, the StyleSheet holds exactly the Rules
\* of the well-formed rules, in source order.
C9_ForgivingParse ==
    (/\ sheetPc = "done"
     /\ \A i \in 1 .. Len(segs) : Blocks[segs[i]].kind \in Forgivable)
    => styleSheet = Some([rules |-> WellFormedRules(segs)])

----------------------------------------------------------------------------
(* Claims about declarations and value parsers *)

\* the StyleProps declaration i resolves to when it is applied on its own
Resolved(i) ==
    IF IsPanic(parse_prop_into(Declarations[i].prop, Declarations[i].value, <<>>))
    THEN <<>>
    ELSE parse_prop_into(Declarations[i].prop, Declarations[i].value, <<>>)[2]

\* every StyleProp the declarations is resolved to, in order of application
RECURSIVE AllResolved(_)
AllResolved(is) ==
    IF is = <<>> THEN <<>> ELSE Resolved(Head(is)) \o AllResolved(Tail(is))

\* C11: applying a declaration that cannot be used (unknown property, value
\* that fails its type parser) returns normally and leaves the Style as it
\* was, and a usable declaration applied before or after it adds exactly the
\* longhands it resolves to.
C11_DeclarationDropped ==
    [][ applied' # applied =>
            /\ ~IsPanic(cssCall'.ret)
            /\ ~Declarations[cssCall'.call[2]].usable => props' = props
            /\ Declarations[cssCall'.call[2]].usable =>
                  props' = Style_add_props(props, Resolved(cssCall'.call[2]))
      ]_vars

\* C12: the Style holds at most one entry per longhand, and each entry is the
\* value of the last application that resolved to that longhand, whether it
\* was written as the longhand or as a shorthand.
C12_OverrideLaw ==
    LET all == AllResolved(applied)
    IN  /\ \A i, j \in 1 .. Len(props) : props[i][1] = props[j][1] => i = j
        /\ \A k \in 1 .. Len(all) :
              (\A m \in (k + 1) .. Len(all) : all[m][1] # all[k][1])
              => \E i \in 1 .. Len(props) : props[i] = all[k]
        /\ \A i \in 1 .. Len(props) : \E k \in 1 .. Len(all) : all[k][1] = props[i][1]

\* background-color: #fff, then background: black: one entry, black
C12_Witness ==
    /\ Len(applied) >= 2
    /\ applied[1] = 1
    /\ applied[2] = 3
    /\ props = <<StyleProp("BackgroundColor", CssColor_BLACK)>>

\* C13: color() never panics, and it answers every token slice that is not a
\* valid color with an error.
C13_ColorErrors ==
    (cssCall.call[1] = "color" /\ cssCall.ret # Pending) =>
        /\ ~IsPanic(cssCall.ret)
        /\ ~ColorValues[cssCall.call[2]].valid => cssCall.ret[1] = "err"
        /\ ColorValues[cssCall.call[2]].valid => cssCall.ret[1] = "ok"

\* the value of the k-th entry of DimValues
DimValue(k) == dimension(DimValues[k], 0).val

\* C20: sides_of gives (a,a,a,a) for one value, (a,b,a,b) for two, (a,b,c,b)
\* for three and (a,b,c,d) for four, and an error for a list of any other
\* length.
C20_SidesOf ==
    (cssCall.call[1] = "sides_of" /\ cssCall.ret # Pending) =>
        LET ds == cssCall.call[2]
            v  == [i \in 1 .. Len(ds) |-> DimValue(ds[i])]
        IN  CASE Len(ds) = 1 -> cssCall.ret = Ok(<<v[1], v[1], v[1], v[1]>>)
              [] Len(ds) = 2 -> cssCall.ret = Ok(<<v[1], v[2], v[1], v[2]>>)
              [] Len(ds) = 3 -> cssCall.ret = Ok(<<v[1], v[2], v[3], v[2]>>)
              [] Len(ds) = 4 -> cssCall.ret = Ok(<<v[1], v[2], v[3], v[4]>>)
              [] OTHER       -> cssCall.ret[1] = "err"

\* three different values were expanded
C20_Witness ==
    /\ cssCall.call[1] = "sides_of"
    /\ cssCall.call[2] = <<1, 2, 3>>
    /\ cssCall.ret = Ok(<<DimValue(1), DimValue(2), DimValue(3), DimValue(2)>>)

----------------------------------------------------------------------------
(* The tokenizer: C14, C15, C16 *)

\* the bytes of the tokens that are not a space token, in order
RECURSIVE NonSpaceBytes(_)
NonSpaceBytes(toks) ==
    IF toks = <<>> THEN <<>>
    ELSE IF Head(toks) = <<" ">> THEN NonSpaceBytes(Tail(toks))
    ELSE Head(toks) \o NonSpaceBytes(Tail(toks))

\* what the first pass left unread is nothing, or one comment that ends the input
NothingDiscarded ==
    \/ tkPos = Len(input)
    \/ tk_comment(input, tkPos).ok /\ tk_comment(input, tkPos).pos = Len(input)

\* C14: tokenize returns for every input, and when it has returned no part of
\* the input was discarded: the first pass read the input to its end (but for
\* a closing comment) and the second pass removed nothing but space tokens.
C14_NothingDiscarded ==
    tkPc = "done" =>
        /\ NothingDiscarded
        /\ NonSpaceBytes(res) = NonSpaceBytes(rawTokens)

\* a token holds text of a comment: a comment delimiter byte next to its pair
HoldsCommentText(toks) ==
    \E i \in 1 .. Len(toks) - 1 :
        \/ toks[i] = <<"/">> /\ toks[i + 1] = <<"*">>
        \/ toks[i] = <<"*">> /\ toks[i + 1] = <<"/">>

\* C15: the tokens of an input are the tokens of its minimal form, where every
\* run of whitespace and comments is one space, and no token holds comment text.
C15_Normalization ==
    tkPc = "done" =>
        /\ res = tokenize(MinimalBytes(tkSrc, FALSE))
        /\ ~HoldsCommentText(res)

\* an identifier-class token, '*' or ']'
CanEndComponent(t) ==
    \/ \A k \in 1 .. Len(t) : t[k] \in IdentBytes
    \/ t = <<"*">>
    \/ t = <<"]">>

\* a token that starts with an identifier character, or '.', '#' or '*'
CanStartComponent(t) ==
    \/ t[1] \in IdentBytes
    \/ t = <<".">>
    \/ t = <<"#">>
    \/ t = <<"*">>

\* C16: every space token of the output of tokenize has a token before it that
\* can end a component and a token after it that can start one.
C16_SpaceKept ==
    tkPc = "done" =>
        \A i \in 1 .. Len(res) :
            res[i] = <<" ">> =>
                /\ i > 1 /\ CanEndComponent(res[i - 1])
                /\ i < Len(res) /\ CanStartComponent(res[i + 1])

----------------------------------------------------------------------------
(* Selectors: C17, C18, C19 *)

\* the pieces of a selector text that reach selector() as tokens: tokenize
\* keeps a space only before a token that starts with an identifier character
\* or is '.', '#' or '*', so a descendant space before '[' or ':' is no token
RECURSIVE PiecesParsed(_)
PiecesParsed(ps) ==
    IF ps = <<>> THEN <<>>
    ELSE IF Head(ps) = 9 /\ Len(ps) > 1 /\ ps[2] \in {5, 6, 7} THEN PiecesParsed(Tail(ps))
    ELSE <<Head(ps)>> \o PiecesParsed(Tail(ps))

\* the parts the pieces stand for, in source order
SourceParts(ps) == [i \in 1 .. Len(ps) |-> SelPieces[ps[i]].part]

Reverse(sq) == [i \in 1 .. Len(sq) |-> sq[Len(sq) + 1 - i]]

\* the call of the given kind has returned
SelReturned(kind) == selCall.call[1] = kind /\ selCall.ret # Pending

\* C17: selector() accepts the tokens of every well-formed selector text, and
\* the parts it stores are the components and combinators of its input in
\* reverse source order: the subject first, the outermost ancestor last, every
\* combinator (a comma too) between the two components it is between in the
\* source.
C17_PartsReversed ==
    (SelReturned("selector") /\ selSrc \notin MalformedSelectors) =>
        selCall.ret = Ok([parts |-> Reverse(SourceParts(PiecesParsed(selSrc)))])

\* selector() has parsed  a > a.c a#b
C17_Witness ==
    /\ SelReturned("selector")
    /\ selSrc = <<1, 8, 1, 3, 9, 1, 2>>
    /\ selCall.ret[2].parts[1] = Component(Identifier(<<"b">>))
    /\ selCall.ret[2].parts[6] = Combinator("Parent")

\* the rules of the sheet that was parsed
SheetRules == styleSheet[1].rules

\* C18: Selector::from returns a selector for every text, the selector of one
\* Unsupported component for a text that is not a well-formed selector; and
\* the rule that follows a rule with such a selector is still parsed: the
\* sheet is read to its end and its last rule is the rule of `c`.
C18_SelectorNeverFails ==
    /\ SelReturned("Selector::from") =>
          /\ selCall.ret[1] = "ok"
          /\ selSrc \in MalformedSelectors => selCall.ret[2] = Selector_unsupported
    /\ (selCall.call[1] = "sheet" /\ sheetPc = "done") =>
          /\ pos = Len(tokens)
          /\ SheetRules # <<>>
          /\ SheetRules[Len(SheetRules)].selector.parts = <<Component(LocalName(<<"c">>))>>
          /\ selSrc \in MalformedSelectors => Len(SheetRules) = 1

\* the sheet  a, , a {} c {}  has been parsed
C18_Witness ==
    /\ selCall.call[1] = "sheet"
    /\ sheetPc = "done"
    /\ selSrc = <<1, 10, 10, 1>>
    /\ Len(SheetRules) = 1

\* the parts selector() returned
PartsReturned == selCall.ret[2].parts

\* C19: in a well-formed selector text every attribute selector, pseudo-class
\* or pseudo-element and sibling combinator is one Unsupported component of the
\* parsed selector, at the place of its piece, and every piece after it is
\* parsed to its own part: there are as many parts as pieces parsed.
C19_UnsupportedInStep ==
    (SelReturned("selector") /\ selSrc \notin MalformedSelectors) =>
        \A i \in 1 .. Len(PiecesParsed(selSrc)) :
            PiecesParsed(selSrc)[i] \in UnsupportedPieces =>
                /\ selCall.ret[1] = "ok"
                /\ Len(PartsReturned) = Len(PiecesParsed(selSrc))
                /\ PartsReturned[Len(PartsReturned) + 1 - i] = Component(Unsupported)
                /\ \A j \in i + 1 .. Len(PartsReturned) :
                      PartsReturned[Len(PartsReturned) + 1 - j]
                          = SelPieces[PiecesParsed(selSrc)[j]].part

\* selector() has parsed  [x] + a
C19_Witness ==
    /\ SelReturned("selector")
    /\ selSrc = <<5, 11, 1>>
    /\ selCall.ret[2].parts = <<Component(LocalName(<<"a">>)), Component(Unsupported),
                                Component(Unsupported)>>

----------------------------------------------------------------------------
(* Shorthands with optional components: C21 *)

\* the call of the given parser has returned
ValReturned(name) == cssCall.call[1] = name /\ cssCall.ret # Pending

\* C21: flex() returns the grow that is given, the shrink that is given or 1,
\* and the basis that is given or Auto; overflow() returns the x that is given
\* and the y that is given or x.
C21_ShorthandDefaults ==
    /\ ValReturned("flex") =>
          cssCall.ret = Ok(<< FlexGrows[cssCall.call[2]].val,
                              IF cssCall.call[3] = 0 THEN 1 * Milli
                              ELSE FlexShrinks[cssCall.call[3]].val,
                              IF cssCall.call[4] = 0 THEN Auto
                              ELSE FlexBases[cssCall.call[4]].val >>)
    /\ ( /\ ValReturned("overflow")
         /\ OverflowNames[cssCall.call[2]].valid
         /\ cssCall.call[3] # 0 => OverflowNames[cssCall.call[3]].valid ) =>
          cssCall.ret = Ok(<< OverflowNames[cssCall.call[2]].toks[1],
                              IF cssCall.call[3] = 0 THEN OverflowNames[cssCall.call[2]].toks[1]
                              ELSE OverflowNames[cssCall.call[3]].toks[1] >>)

----------------------------------------------------------------------------
(* Color notations: C22 *)

\* the 8-bit RGBA value of the channels: alpha 255 where none is given
ChannelColor(cs) ==
    CssColor(ColorChannels[cs[1]].val, ColorChannels[cs[2]].val, ColorChannels[cs[3]].val,
             IF Len(cs) = 4 THEN ColorChannels[cs[4]].val ELSE 255)

\* C22: every notation of the same channels resolves to the same 8-bit RGBA
\* value: #rgb and #rrggbb, #rgba and #rrggbbaa (a hex digit n being the byte
\* n * 17, at most 255), rgb(R, G, B) and the 6-digit form, alpha 255 where none
\* is written; rgba(0, 0, 0, 0) is transparent black.
C22_ColorNotations ==
    ValReturned("color_notation") =>
        /\ cssCall.ret = Ok(ChannelColor(cssCall.call[3]))
        /\ cssCall.ret = parse(color(ShortHex(cssCall.call[3]), 0))
        /\ cssCall.ret = parse(color(LongHex(cssCall.call[3]), 0))
        /\ \A k \in 1 .. Len(cssCall.call[3]) :
              ColorChannels[cssCall.call[3][k]].val
                  = 17 * to_digit16(ColorChannels[cssCall.call[3][k]].nibble)[1]
        /\ {cssCall.ret[2].r, cssCall.ret[2].g, cssCall.ret[2].b, cssCall.ret[2].a} \subseteq 0 .. 255
        /\ (cssCall.call[2] = "rgba" /\ cssCall.call[3] = <<1, 1, 1, 1>>) =>
              cssCall.ret = Ok(CssColor_TRANSPARENT)

\* color() has resolved rgb(255, 0, 136) to the value of #F08 and #FF0088
C22_Witness ==
    /\ ValReturned("color_notation")
    /\ cssCall.call = <<"color_notation", "rgb", <<5, 1, 3>>>>
    /\ cssCall.ret = Ok(CssColor(255, 0, 136, 255))

----------------------------------------------------------------------------
(* Dimensions: C23 *)

\* the input dimension() was called with
DimensionInput == DimensionInputs[cssCall.call[2]]

\* C23: dimension() maps <n>px to Px(n), <n>% to Percent(n), auto to Auto, and
\* the bare token 0 to a value of its own, which is not the value of 0px.
C23_ZeroIsDistinct ==
    ValReturned("dimension") =>
        /\ cssCall.ret[1] = "ok"
        /\ DimensionInput.form = "px" => cssCall.ret[2] = Px(DimensionInput.n)
        /\ DimensionInput.form = "percent" => cssCall.ret[2] = Percent(DimensionInput.n)
        /\ DimensionInput.form = "auto" => cssCall.ret[2] = Auto
        /\ DimensionInput.form = "zero" =>
              cssCall.ret # parse(dimension(<< <<"0">>, <<"p", "x">> >>, 0))

----------------------------------------------------------------------------
(* The event stream of the Document: C24, C25, C26 *)

\* the tree as the listener saw it when it received the event: the mutation
\* the event describes is in it
MutationApplied(e, t) ==
    /\ e[1] = "NodeInserted" =>
          /\ e[2] \in DOMAIN t /\ e[3] \in DOMAIN t
          /\ e[4] < Len(t[e[2]].children)
          /\ t[e[2]].children[e[4] + 1] = e[3]
          /\ t[e[3]].parent = Some(e[2])
    /\ e[1] = "NodeRemoved" =>
          /\ e[2] \in DOMAIN t
          /\ e[3] \notin Range(t[e[2]].children)
    /\ e[1] = "NodeDestroyed" => e[2] \notin DOMAIN t

\* the events of one call: none for a read and for a call that panicked
EventsOf(c) ==
    IF IsPanic(c.ret) THEN <<>>
    ELSE CASE c.call[1] = "insert_child" ->
                <<NodeInserted(c.call[2], c.call[3], c.call[4]), ParentChanged(c.call[3])>>
           [] c.call[1] = "remove_child" ->
                <<NodeRemoved(c.call[2], c.call[3]), ParentChanged(c.call[3])>>
           [] c.call[1] = "free_node" -> <<NodeDestroyed(c.call[2])>>
           [] c.call[1] = "create_text_node" -> <<TextNodeCreated(c.ret[2])>>
           [] c.call[1] = "create_element" -> <<ElementCreated(c.ret[2])>>
           [] c.call[1] = "set_text" -> <<TextChanged(c.call[2])>>
           [] c.call[1] \in {"set_attribute", "remove_attribute"} ->
                <<AttributesChanged(c.call[2])>>
           [] OTHER -> <<>>

\* C24: the listener receives every event inside the call that causes it and
\* after the mutation: at NodeInserted(parent, child, index) the child is at
\* position index of the children of parent and has parent as its parent, at
\* NodeRemoved(parent, child) the child is not among the children of parent, at
\* NodeDestroyed(node) the slot is free; every call appends its own events to
\* the log, in order, and a call that aborts appends none.
C24_EventsAfterMutation ==
    /\ [](\A i \in 1 .. Len(log) : MutationApplied(log[i].event, log[i].tree))
    /\ [][Delivered(EventsOf(lastCall'))]_vars

\* a node was created, inserted under the root and freed
C24_Witness ==
    /\ Len(log) = 5
    /\ log[2].event[1] \in {"ElementCreated", "TextNodeCreated"}
    /\ log[3].event = NodeInserted(root, log[2].event[2], 0)
    /\ log[5].event = NodeDestroyed(log[2].event[2])
    /\ log[3].tree[root].children = <<log[2].event[2]>>
    /\ log[5].event[2] \notin DOMAIN log[5].tree

\* the node ids an event names
Names(e) == IF e[1] \in {"NodeInserted", "NodeRemoved"} THEN {e[2], e[3]} ELSE {e[2]}

IsCreation(e, n) == e[1] \in {"ElementCreated", "TextNodeCreated"} /\ e[2] = n

\* before event i a creation event of n was delivered, and no NodeDestroyed(n)
\* after it
CreatedBefore(n, i) ==
    \E j \in 1 .. i - 1 :
        /\ IsCreation(log[j].event, n)
        /\ \A k \in j + 1 .. i - 1 : log[k].event # NodeDestroyed(n)

\* C25: every event that names a node id is the creation event of the id or
\* comes after one, with no NodeDestroyed of the id in between: nothing names
\* an id before it is created, or after it is destroyed and before it is
\* returned by a creation again.
C25_Lifecycle ==
    \A i \in 1 .. Len(log) :
        \A n \in Names(log[i].event) :
            IsCreation(log[i].event, n) \/ CreatedBefore(n, i)

\* an id was destroyed, returned by a later creation, and named again
C25_Witness ==
    \E i \in 1 .. Len(log) : \E j \in i + 1 .. Len(log) : \E k \in j + 1 .. Len(log) :
        /\ log[i].event[1] = "NodeDestroyed"
        /\ IsCreation(log[j].event, log[i].event[2])
        /\ log[i].event[2] \in Names(log[k].event)

\* C26: no call changes the kind of the payload of a node that is live before
\* and after it, and an element keeps its local name; its attributes change
\* only in set_attribute and remove_attribute on it.
C26_KindFixed ==
    [][ \A n \in DOMAIN tree \cap DOMAIN tree' :
          /\ tree'[n].data.kind = tree[n].data.kind
          /\ tree[n].data.kind = "Element" =>
                /\ tree'[n].data.local_name = tree[n].data.local_name
                /\ \/ tree'[n].data.attributes = tree[n].data.attributes
                   \/ /\ lastCall'.call[1] \in {"set_attribute", "remove_attribute"}
                      /\ lastCall'.call[2] = n
      ]_vars

====
